---------------------------- MODULE Spec2Model ----------------------------
(***************************************************************************)
(* A model of the golink service: the warp handlers of src/src/service.rs  *)
(* on top of the two GoStorage backends of src/src/storage.rs (the         *)
(* in-memory HashMapStorage behind a tokio RwLock, and SqliteStorage).     *)
(*                                                                         *)
(* Strings that the code inspects character by character or compares       *)
(* (short links, created_at timestamps) are sequences of code points.      *)
(* Requests run as concurrent tasks; every await point of a handler is a   *)
(* step boundary.                                                          *)
(***************************************************************************)
EXTENDS Integers, Sequences, FiniteSets, TLC

(***************************************************************************)
(* Bounds of the model.                                                    *)
(***************************************************************************)
\* total number of requests the service receives in one behaviour
MaxRequests == 3
\* number of times the wall clock advances
MaxClock == 2
\* longest string fed to validate_golink_pattern on its own
MaxStrLen == 5
\* most Golinks a store holds when a workload of listings starts
MaxItems == 3
\* width of usize and i64 in bits: the model keeps the words narrow where
\* the targets the service is built for have 64 bits
UsizeBits == 16

\* the request tasks: two run concurrently
Procs == {1, 2}

(***************************************************************************)
(* Strings as sequences of code points.                                    *)
(***************************************************************************)
\* "go/a", "go/b": aliases that match the pattern
GoA == <<103, 111, 47, 97>>
GoB == <<103, 111, 47, 98>>
\* "go/@", "no/a": well-formed two-segment paths that do not match it
GoAt == <<103, 111, 47, 64>>
NoA == <<110, 111, 47, 97>>

\* short links the body of a create request can carry
ShortLinks == {GoA, GoB, GoAt, NoA}
\* keys "<prefix>/<name>" that the routes of get, update and delete compose
PathKeys == {GoA, GoB}
\* destination urls (opaque to the service) of create and of update requests
CreateUrls == {"https://example.com"}
UpdateUrls == {"https://example.com", "https://updated.com"}
\* detail strings of lower-level sqlx failures
Faults == {"pool timed out", "disk I/O error"}
NoFault == "none"

\* texts of the page and page_size query parameters: "0" "2" "x"
ParamTexts == {<<48>>, <<50>>, <<120>>}
\* the query strings a list request can carry, as the HashMap<String, String>
\* warp decodes them into
QueryParams ==
    UNION {[names -> ParamTexts] : names \in SUBSET {"page", "page_size"}}

\* more texts of these parameters, for list requests taken one at a time:
\* "0" "1" "2" "100" "101" "x" "+2" "-1" ""
WideParamTexts ==
    {<<48>>, <<49>>, <<50>>, <<49, 48, 48>>, <<49, 48, 49>>, <<120>>,
     <<43, 50>>, <<45, 49>>, <<>>}
WideQueryParams ==
    UNION {[names -> WideParamTexts] : names \in SUBSET {"page", "page_size"}}

\* code points of the characters validate_golink_pattern is tried on:
\* g o / Z 7 _ - @
Alphabet == {103, 111, 47, 90, 55, 95, 45, 64}

(***************************************************************************)
(* service.rs: validate_golink_pattern, Regex ^go/[a-zA-Z0-9_-]+$          *)
(***************************************************************************)
\* a character class without the digits: [a-zA-Z_-]
ClassMatches_NoDigits(c) ==
    \/ (c >= 97 /\ c <= 122)
    \/ (c >= 65 /\ c <= 90)
    \/ c = 95
    \/ c = 45

\* the character class [a-zA-Z0-9_-]
ClassMatches(c) ==
    \/ (c >= 97 /\ c <= 122)
    \/ (c >= 65 /\ c <= 90)
    \/ (c >= 48 /\ c <= 57)
    \/ c = 95
    \/ c = 45

\* [a-zA-Z0-9_-]+$ tried at position i: one class character, then either
\* the end of the text or the same again
RECURSIVE MatchPlusEnd(_, _)
MatchPlusEnd(s, i) ==
    /\ i <= Len(s)
    /\ ClassMatches(s[i])
    /\ (i = Len(s) \/ MatchPlusEnd(s, i + 1))

\* ^go/ : the literal prefix, anchored at the start of the text
MatchPrefix(s) ==
    /\ Len(s) >= 3
    /\ s[1] = 103
    /\ s[2] = 111
    /\ s[3] = 47

\* a pattern without its character class and end anchor: ^go/
RegexIsMatch_PrefixOnly(s) == MatchPrefix(s)

RegexIsMatch(s) == MatchPrefix(s) /\ MatchPlusEnd(s, 4)

\* a validation that lets every short_link through
validate_golink_pattern_AcceptAll(short_link) == "Ok"

validate_golink_pattern(short_link) ==
    IF RegexIsMatch(short_link) THEN "Ok" ELSE "Err"

(***************************************************************************)
(* service.rs: the entity and its construction in create_golink            *)
(***************************************************************************)
\* the wall-clock instants (nanoseconds into the current minute) that
\* chrono::Utc::now() returns as the clock advances
Instants == <<0, 1500000, 1500001, 1000000000, 1002000000>>
Instant(i) == Instants[IF i + 1 <= Len(Instants) THEN i + 1 ELSE Len(Instants)]

\* chrono::Utc::now(): since the previous reading the wall clock has stood
\* still or advanced
NowFrom(c) == IF c < MaxClock THEN {c, c + 1} ELSE {c}

RECURSIVE Pow2(_)
Pow2(k) == IF k = 0 THEN 1 ELSE 2 * Pow2(k - 1)

\* usize and i64 are machine words of UsizeBits bits
UsizeModulus == Pow2(UsizeBits)
UsizeMax == UsizeModulus - 1

\* (v as i64) of a usize v: the same bits read as a signed word
usize_as_i64(v) == IF v < UsizeModulus \div 2 THEN v ELSE v - UsizeModulus

RECURSIVE Pow10(_)
Pow10(k) == IF k = 0 THEN 1 ELSE 10 * Pow10(k - 1)

\* n written with exactly w decimal digits
DecDigits(n, w) == [i \in 1..w |-> 48 + ((n \div Pow10(w - i)) % 10)]

\* DateTime<Utc>::to_rfc3339 (SecondsFormat::AutoSi): seconds, then no
\* fraction, or 3, 6 or 9 fractional digits, then "+00:00".  The date, hour
\* and minute are the same for all instants of the model and are left out.
to_rfc3339(t) ==
    LET secs == t \div 1000000000
        nanos == t % 1000000000
        frac == IF nanos = 0 THEN <<>>
                ELSE IF nanos % 1000000 = 0
                     THEN <<46>> \o DecDigits(nanos \div 1000000, 3)
                ELSE IF nanos % 1000 = 0
                     THEN <<46>> \o DecDigits(nanos \div 1000, 6)
                ELSE <<46>> \o DecDigits(nanos, 9)
    IN DecDigits(secs, 2) \o frac \o <<43, 48, 48, 58, 48, 48>>

\* Uuid::new_v4().to_string() of the n-th generated uuid
UuidToString(n) == <<"uuid", n>>

Golink(id, short_link, url, created_at) ==
    [id |-> id, short_link |-> short_link, url |-> url,
     created_at |-> created_at]

(***************************************************************************)
(* State.                                                                  *)
(***************************************************************************)
VARIABLES
    backend,    \* main.rs: the backend chosen at start, "hashmap" | "sqlite"
    data,       \* HashMapStorage.data: the entries in iteration order
    rwlock,     \* the RwLock around data: [writer, readers]
    rows,       \* SqliteStorage: the rows of table golinks
    pc,         \* where each request task stands
    req,        \* the request each task is handling
    total_count,\* SqliteStorage::get_paginated: the count each task read
    resp,       \* the last reply each task produced
    nreq,       \* requests received so far
    clock,      \* index of the current wall-clock instant
    uuids,      \* uuids generated so far
    vInput,     \* a string under validation (pure-function check)
    vResult     \* validate_golink_pattern(vInput)

vars == <<backend, data, rwlock, rows, pc, req, total_count, resp, nreq,
          clock, uuids, vInput, vResult>>

storeVars == <<data, rows>>

NoReq == [op |-> "none"]
NoResp == [op |-> "none", key |-> <<>>, status |-> 0,
           body |-> [kind |-> "none"]]

\* the reply r to a request, filed with the key the request named
Answer(request, r) ==
    [op |-> r.op,
     key |-> IF request.op \in {"get_all", "get_paginated"}
             THEN <<>> ELSE request.short_link,
     status |-> r.status,
     body |-> r.body]


(***************************************************************************)
(* warp::http::StatusCode values used by the handlers.                     *)
(***************************************************************************)
OK == 200
CREATED == 201
BAD_REQUEST == 400
NOT_FOUND == 404
CONFLICT == 409
INTERNAL_SERVER_ERROR == 500

(***************************************************************************)
(* storage.rs: StorageResult values.                                       *)
(***************************************************************************)
StorageOk(v) == [tag |-> "Ok", value |-> v]
ErrNotFound == [tag |-> "NotFound"]
ErrAlreadyExists == [tag |-> "AlreadyExists"]
DatabaseError(e) == [tag |-> "DatabaseError", detail |-> e]
Unit == "()"

(***************************************************************************)
(* std HashMap<String, Golink>, seen as its entries in iteration order.    *)
(***************************************************************************)
Entry(k, v) == [key |-> k, value |-> v]

\* a lookup that never finds the key
contains_key_Miss(store, k) == FALSE

contains_key(store, k) == \E i \in DOMAIN store : store[i].key = k

\* the index of key k among the entries (k is present)
IndexOfKey(store, k) == CHOOSE i \in DOMAIN store : store[i].key = k

\* a lookup that answers with whatever entry comes first
HashMapGet_First(store, k) ==
    IF store # <<>> THEN StorageOk(store[1].value) ELSE ErrNotFound

HashMapGet(store, k) ==
    IF contains_key(store, k)
    THEN StorageOk(store[IndexOfKey(store, k)].value)
    ELSE ErrNotFound

InsertAt(store, i, e) ==
    SubSeq(store, 1, i - 1) \o <<e>> \o SubSeq(store, i, Len(store))

\* an insert that drops the entries the map had
HashMapInsert_Lossy(store, k, v) == {<<Entry(k, v)>>}

\* HashMap::insert: the maps that can result.  A present key keeps its slot
\* and gets the new value; a new key lands in a slot the hasher picks, so
\* anywhere in the iteration order.
HashMapInsert(store, k, v) ==
    IF contains_key(store, k)
    THEN {[store EXCEPT ![IndexOfKey(store, k)] = Entry(k, v)]}
    ELSE {InsertAt(store, i, Entry(k, v)) : i \in 1..(Len(store) + 1)}

\* a removal that leaves the entry in place
HashMapRemove_Keep(store, k) == store

\* HashMap::remove: the other entries keep their slots
HashMapRemove(store, k) ==
    LET Keep(e) == e.key # k IN SelectSeq(store, Keep)

\* HashMap::values().cloned().collect()
HashMapValues(store) == [i \in DOMAIN store |-> store[i].value]

(***************************************************************************)
(* String::cmp: lexicographic on code points, a proper prefix is smaller.  *)
(***************************************************************************)
RECURSIVE StrCmpFrom(_, _, _)
StrCmpFrom(a, b, i) ==
    IF i > Len(a) /\ i > Len(b) THEN "Equal"
    ELSE IF i > Len(a) THEN "Less"
    ELSE IF i > Len(b) THEN "Greater"
    ELSE IF a[i] < b[i] THEN "Less"
    ELSE IF a[i] > b[i] THEN "Greater"
    ELSE StrCmpFrom(a, b, i + 1)

StrCmp(a, b) == StrCmpFrom(a, b, 1)

\* the comparator of get_paginated: |a, b| b.created_at.cmp(&a.created_at)
CmpCreatedAtDesc(a, b) == StrCmp(b.created_at, a.created_at)

\* slice::sort_by with that comparator: a stable sort, so x goes after every
\* element that does not compare Greater than it
RECURSIVE InsertSorted(_, _, _)
InsertSorted(sorted, x, i) ==
    IF i > Len(sorted) THEN Append(sorted, x)
    ELSE IF CmpCreatedAtDesc(sorted[i], x) = "Greater"
         THEN InsertAt(sorted, i, x)
         ELSE InsertSorted(sorted, x, i + 1)

RECURSIVE SortFrom(_, _, _)
SortFrom(all, sorted, i) ==
    IF i > Len(all) THEN sorted
    ELSE SortFrom(all, InsertSorted(sorted, all[i], 1), i + 1)

sort_by_created_at_desc(all) == SortFrom(all, <<>>, 1)

Min(a, b) == IF a <= b THEN a ELSE b

\* iter.skip(offset).take(page_size)
SkipTake(all, offset, page_size) ==
    SubSeq(all, offset + 1, Min(Len(all), offset + page_size))

(***************************************************************************)
(* SQLite table golinks(id TEXT PRIMARY KEY, short_link TEXT UNIQUE NOT    *)
(* NULL, url TEXT NOT NULL, created_at TEXT NOT NULL): a set of rows.      *)
(***************************************************************************)
\* a table whose short_link column was declared without UNIQUE
is_unique_violation_IdOnly(table, g) == \E r \in table : r.id = g.id

\* would inserting g break PRIMARY KEY(id) or UNIQUE(short_link)?
is_unique_violation(table, g) ==
    \E r \in table : r.short_link = g.short_link \/ r.id = g.id

\* SELECT ... WHERE short_link = ?
SelectByShortLink(table, k) == {r \in table : r.short_link = k}

\* an UPDATE that also stamps the row anew
UpdateUrl_Restamp(table, k, url) ==
    {IF r.short_link = k THEN [r EXCEPT !.url = url, !.created_at = <<>>]
     ELSE r : r \in table}

\* UPDATE golinks SET url = ? WHERE short_link = ?
UpdateUrl(table, k, url) ==
    {IF r.short_link = k THEN [r EXCEPT !.url = url] ELSE r : r \in table}

\* DELETE FROM golinks WHERE short_link = ?
\* a DELETE that reports the row as deleted and keeps it
DeleteByShortLink_Tombstone(table, k) == table

DeleteByShortLink(table, k) == {r \in table : r.short_link # k}

\* rows_affected() of the UPDATE and of the DELETE
RowsAffected(table, k) == Cardinality(SelectByShortLink(table, k))

\* a count of the instants of creation instead of the rows
CountAll_Instants(table) == Cardinality({r.created_at : r \in table})

\* SELECT COUNT(*) FROM golinks
CountAll(table) == Cardinality(table)

\* all orders in which a set can be listed
RECURSIVE Listings(_)
Listings(S) ==
    IF S = {} THEN {<<>>}
    ELSE UNION {{<<x>> \o rest : rest \in Listings(S \ {x})} : x \in S}

\* ORDER BY created_at DESC (TEXT, BINARY collation): the listings in which
\* no row precedes one that compares greater; rows with equal created_at
\* come in an order the engine picks
OrderByCreatedAtDesc(table) ==
    {s \in Listings(table) :
        \A i, j \in DOMAIN s :
            i < j => StrCmp(s[i].created_at, s[j].created_at) # "Less"}

\* SELECT .. ORDER BY created_at DESC LIMIT ? OFFSET ?: the row sequences
\* the statement can return
\* .bind(offset as i64); SQLite takes a negative OFFSET as 0
SqliteSelectPage(table, limit, offset) ==
    LET bound == usize_as_i64(offset)
        skip == IF bound < 0 THEN 0 ELSE bound
    IN {SkipTake(listing, skip, limit) :
            listing \in OrderByCreatedAtDesc(table)}

(***************************************************************************)
(* Replies of the handlers.                                                *)
(***************************************************************************)
Reply(op, status, body) == [op |-> op, status |-> status, body |-> body]
JsonError(msg) == [kind |-> "error", error |-> msg]
JsonGolink(g) == [kind |-> "golink", golink |-> g]
JsonMessage(msg) == [kind |-> "message", message |-> msg]

\* a match that answers a refused create like an accepted one
CreateReply_ConflictCreated(result, golink) ==
    IF result.tag \in {"Ok", "AlreadyExists"}
    THEN Reply("create", CREATED, JsonGolink(golink))
    ELSE Reply("create", INTERNAL_SERVER_ERROR, JsonError("Unexpected error"))

\* the match of create_golink on storage.create(golink.clone()).await
CreateReply(result, golink) ==
    IF result.tag = "Ok"
    THEN Reply("create", CREATED, JsonGolink(golink))
    ELSE IF result.tag = "AlreadyExists"
    THEN Reply("create", CONFLICT, JsonError("Golink already exists"))
    ELSE IF result.tag = "DatabaseError"
    THEN Reply("create", INTERNAL_SERVER_ERROR,
               JsonError("Database error: " \o result.detail))
    ELSE Reply("create", INTERNAL_SERVER_ERROR, JsonError("Unexpected error"))

\* the match of get_golink on storage.get(&short_link).await
GetReply(result) ==
    IF result.tag = "Ok"
    THEN Reply("get", OK, JsonGolink(result.value))
    ELSE IF result.tag = "NotFound"
    THEN Reply("get", NOT_FOUND, JsonError("Golink not found"))
    ELSE IF result.tag = "DatabaseError"
    THEN Reply("get", INTERNAL_SERVER_ERROR,
               JsonError("Database error: " \o result.detail))
    ELSE Reply("get", INTERNAL_SERVER_ERROR, JsonError("Unexpected error"))

\* the match of update_golink on storage.update(..).await
UpdateReply(result) ==
    IF result.tag = "Ok"
    THEN Reply("update", OK, JsonGolink(result.value))
    ELSE IF result.tag = "NotFound"
    THEN Reply("update", NOT_FOUND, JsonError("Golink not found"))
    ELSE IF result.tag = "DatabaseError"
    THEN Reply("update", INTERNAL_SERVER_ERROR,
               JsonError("Database error: " \o result.detail))
    ELSE Reply("update", INTERNAL_SERVER_ERROR, JsonError("Unexpected error"))

\* a match that reports success for NotFound as well
DeleteReply_NotFoundOk(result) ==
    IF result.tag \in {"Ok", "NotFound"}
    THEN Reply("delete", OK, JsonMessage("Golink deleted successfully"))
    ELSE Reply("delete", INTERNAL_SERVER_ERROR, JsonError("Unexpected error"))

\* the match of delete_golink on storage.delete(&short_link).await
DeleteReply(result) ==
    IF result.tag = "Ok"
    THEN Reply("delete", OK, JsonMessage("Golink deleted successfully"))
    ELSE IF result.tag = "NotFound"
    THEN Reply("delete", NOT_FOUND, JsonError("Golink not found"))
    ELSE IF result.tag = "DatabaseError"
    THEN Reply("delete", INTERNAL_SERVER_ERROR,
               JsonError("Database error: " \o result.detail))
    ELSE Reply("delete", INTERNAL_SERVER_ERROR, JsonError("Unexpected error"))

\* the match of get_all_golinks on storage.get_all().await
GetAllReply(result) ==
    IF result.tag = "Ok"
    THEN Reply("get_all", OK, [kind |-> "list", data |-> result.value])
    ELSE IF result.tag = "DatabaseError"
    THEN Reply("get_all", INTERNAL_SERVER_ERROR,
               JsonError("Database error: " \o result.detail))
    ELSE Reply("get_all", INTERNAL_SERVER_ERROR, JsonError("Unexpected error"))

\* a reply whose page count is rounded down
GetPaginatedReply_Floor(result, page, page_size) ==
    IF result.tag = "Ok"
    THEN Reply("get_paginated", OK,
               [kind |-> "page",
                data |-> result.value[1],
                pagination |->
                    [page |-> page,
                     page_size |-> page_size,
                     total_items |-> result.value[2],
                     total_pages |-> result.value[2] \div page_size]])
    ELSE Reply("get_paginated", INTERNAL_SERVER_ERROR,
               JsonError("Unexpected error"))

\* the match of get_all_golinks on storage.get_paginated(page, page_size)
\* .await; result.value is <<golinks, total_items>>
GetPaginatedReply(result, page, page_size) ==
    IF result.tag = "Ok"
    THEN Reply("get_paginated", OK,
               [kind |-> "page",
                data |-> result.value[1],
                pagination |->
                    [page |-> page,
                     page_size |-> page_size,
                     total_items |-> result.value[2],
                     total_pages |->
                         (result.value[2] + page_size - 1) \div page_size]])
    ELSE IF result.tag = "DatabaseError"
    THEN Reply("get_paginated", INTERNAL_SERVER_ERROR,
               JsonError("Database error: " \o result.detail))
    ELSE Reply("get_paginated", INTERNAL_SERVER_ERROR,
               JsonError("Unexpected error"))

(***************************************************************************)
(* get_all_golinks: the query parameters.                                  *)
(***************************************************************************)
None == [some |-> FALSE]
Some(v) == [some |-> TRUE, value |-> v]
\* an unwrap that falls back to 0 whatever default is given
unwrap_or_Zero(o, d) == IF o.some THEN o.value ELSE 0

unwrap_or(o, d) == IF o.some THEN o.value ELSE d

RECURSIVE DecValue(_, _)
DecValue(s, n) ==
    IF n = 0 THEN 0 ELSE 10 * DecValue(s, n - 1) + (s[n] - 48)

\* str::parse::<usize>().ok(): an optional '+', then one or more decimal
\* digits and nothing else, of a value that fits usize
ParseUsize(text) ==
    LET digits == IF Len(text) > 0 /\ text[1] = 43 THEN Tail(text) ELSE text
    IN IF Len(digits) = 0 \/ \E i \in DOMAIN digits : digits[i] < 48 \/ digits[i] > 57
       THEN None
       ELSE IF DecValue(digits, Len(digits)) > UsizeMax
       THEN None
       ELSE Some(DecValue(digits, Len(digits)))

\* .and_then(|p| p.parse::<usize>().ok())
and_then_parse(o) == IF o.some THEN ParseUsize(o.value) ELSE None

\* params.get(name)
ParamsGet(params, name) ==
    IF name \in DOMAIN params THEN Some(params[name]) ELSE None

Max(a, b) == IF a >= b THEN a ELSE b

\* .get("page").and_then(parse).unwrap_or(1).max(1)
PageOf(params) ==
    Max(unwrap_or(and_then_parse(ParamsGet(params, "page")), 1), 1)

\* .get("page_size").and_then(parse).unwrap_or(10).min(100).max(1)
PageSizeOf(params) ==
    Max(Min(unwrap_or(and_then_parse(ParamsGet(params, "page_size")), 10),
            100), 1)

\* a check that wants both parameters
UsePagination_Both(params) ==
    "page" \in DOMAIN params /\ "page_size" \in DOMAIN params

\* params.contains_key("page") || params.contains_key("page_size")
UsePagination(params) ==
    "page" \in DOMAIN params \/ "page_size" \in DOMAIN params

\* usize::saturating_sub
saturating_sub(a, b) == IF a >= b THEN a - b ELSE 0

\* an offset that takes page as 0-based
OffsetOf_ZeroBased(page, page_size) == page * page_size

\* the product of two usize does not fit usize: a build with overflow checks
\* (the debug profile) panics here, one without (the release profile) wraps
usize_mul_overflows(a, b) == a * b > UsizeMax

\* let offset = (page.saturating_sub(1)) * page_size, as a build without
\* overflow checks computes it
OffsetOf(page, page_size) ==
    (saturating_sub(page, 1) * page_size) % UsizeModulus

(***************************************************************************)
(* Initial state: main picks one backend; the store is empty.              *)
(***************************************************************************)
Init ==
    /\ backend \in {"hashmap", "sqlite"}
    /\ data = <<>>
    /\ rwlock = [writers |-> {}, readers |-> {}]
    /\ rows = {}
    /\ pc = [p \in Procs |-> "idle"]
    /\ req = [p \in Procs |-> NoReq]
    /\ total_count = [p \in Procs |-> 0]
    /\ resp = [p \in Procs |-> NoResp]
    /\ nreq = 0
    /\ clock = 0
    /\ uuids = 0
    /\ vInput = <<>>
    /\ vResult = validate_golink_pattern(<<>>)

(***************************************************************************)
(* RwLock<HashMap>: write().await and read().await.  The guard is dropped  *)
(* when the storage method returns.                                        *)
(***************************************************************************)
WriteOps == {"create", "update", "delete"}
ReadOps == {"get", "get_all", "get_paginated"}

\* a write guard handed out while other guards are held
RwLockWrite_NotExclusive(p) ==
    /\ backend = "hashmap"
    /\ pc[p] = "call"
    /\ req[p].op \in WriteOps
    /\ rwlock' = [rwlock EXCEPT !.writers = @ \cup {p}]
    /\ pc' = [pc EXCEPT ![p] = "locked"]
    /\ resp' = resp
    /\ UNCHANGED <<backend, data, rows, req, nreq, clock, uuids,
                   total_count, vInput, vResult>>

RwLockWrite(p) ==
    /\ backend = "hashmap"
    /\ pc[p] = "call"
    /\ req[p].op \in WriteOps
    /\ rwlock.writers = {}
    /\ rwlock.readers = {}
    /\ rwlock' = [rwlock EXCEPT !.writers = {p}]
    /\ pc' = [pc EXCEPT ![p] = "locked"]
    /\ resp' = resp
    /\ UNCHANGED <<backend, data, rows, req, nreq, clock, uuids,
                   total_count, vInput, vResult>>

\* a read guard that is handed out while a writer is inside
RwLockRead_PastWriter(p) ==
    /\ backend = "hashmap"
    /\ pc[p] = "call"
    /\ req[p].op \in ReadOps
    /\ rwlock' = [rwlock EXCEPT !.readers = @ \cup {p}]
    /\ pc' = [pc EXCEPT ![p] = "locked"]
    /\ resp' = resp
    /\ UNCHANGED <<backend, data, rows, req, nreq, clock, uuids,
                   total_count, vInput, vResult>>

RwLockRead(p) ==
    /\ backend = "hashmap"
    /\ pc[p] = "call"
    /\ req[p].op \in ReadOps
    /\ rwlock.writers = {}
    /\ rwlock' = [rwlock EXCEPT !.readers = @ \cup {p}]
    /\ pc' = [pc EXCEPT ![p] = "locked"]
    /\ resp' = resp
    /\ UNCHANGED <<backend, data, rows, req, nreq, clock, uuids,
                   total_count, vInput, vResult>>

\* a guard that is never dropped
Unlocked_Held(lock, p) == lock

\* dropping p's guard
Unlocked(lock, p) ==
    [writers |-> lock.writers \ {p}, readers |-> lock.readers \ {p}]

(***************************************************************************)
(* create_golink                                                           *)
(***************************************************************************)
\* a new request goes to the first free task
FirstIdle(p) == pc[p] = "idle" /\ \A q \in Procs : q < p => pc[q] # "idle"

\* the handler up to its first await: validation, then the entity
create_golink(p) ==
    /\ FirstIdle(p)
    /\ nreq < MaxRequests
    /\ \E short_link \in ShortLinks, url \in CreateUrls :
        IF validate_golink_pattern(short_link) = "Err"
        THEN /\ resp' = [resp EXCEPT ![p] = Answer(
                    [op |-> "create", short_link |-> short_link],
                    Reply("create", BAD_REQUEST,
                          JsonError("Invalid golink pattern. Must match 'go/[a-zA-Z0-9_-]+'")))]
             /\ UNCHANGED <<pc, req, uuids, clock>>
        ELSE /\ uuids' = uuids + 1
             /\ clock' \in NowFrom(clock)
             /\ req' = [req EXCEPT ![p] =
                    [op |-> "create",
                     short_link |-> short_link,
                     golink |-> Golink(UuidToString(uuids + 1), short_link, url,
                                       to_rfc3339(Instant(clock')))]]
             /\ pc' = [pc EXCEPT ![p] = "call"]
             /\ resp' = [resp EXCEPT ![p] = NoResp]
    /\ nreq' = nreq + 1
    /\ UNCHANGED <<backend, data, rwlock, rows, total_count, vInput, vResult>>

\* HashMapStorage::create under the write guard: store.contains_key(..)
HashMapStorage_create_check(p) ==
    /\ backend = "hashmap"
    /\ pc[p] = "locked"
    /\ req[p].op = "create"
    /\ pc' = [pc EXCEPT ![p] =
            IF contains_key(data, req[p].golink.short_link)
            THEN "found" ELSE "absent"]
    /\ resp' = resp
    /\ UNCHANGED <<backend, data, rwlock, rows, req, nreq, clock, uuids,
                   total_count, vInput, vResult>>

\* ... then the early return or store.insert(..), the drop of the guard and
\* the handler's reply
HashMapStorage_create(p) ==
    /\ backend = "hashmap"
    /\ pc[p] \in {"found", "absent"}
    /\ req[p].op = "create"
    /\ LET golink == req[p].golink IN
        IF pc[p] = "found"
        THEN /\ resp' = [resp EXCEPT ![p] = Answer(req[p], CreateReply(ErrAlreadyExists, golink))]
             /\ data' = data
        ELSE /\ data' \in HashMapInsert(data, golink.short_link, golink)
             /\ resp' = [resp EXCEPT ![p] = Answer(req[p], CreateReply(StorageOk(Unit), golink))]
    /\ rwlock' = Unlocked(rwlock, p)
    /\ pc' = [pc EXCEPT ![p] = "idle"]
    /\ req' = [req EXCEPT ![p] = NoReq]
    /\ UNCHANGED <<backend, rows, nreq, clock, uuids, total_count, vInput,
                   vResult>>

\* a match that takes every failure of the INSERT for a taken short_link
SqliteInsertResult_AnyErrExists(table, golink, fault) ==
    IF fault # NoFault \/ is_unique_violation(table, golink)
    THEN ErrAlreadyExists
    ELSE StorageOk(Unit)

\* the result of the INSERT of SqliteStorage::create on a table, given the
\* lower-level fault (if any) the statement meets
SqliteInsertResult(table, golink, fault) ==
    IF fault # NoFault THEN DatabaseError(fault)
    ELSE IF is_unique_violation(table, golink) THEN ErrAlreadyExists
    ELSE StorageOk(Unit)

\* SqliteStorage::create (one INSERT statement), and the handler's reply
SqliteStorage_create(p) ==
    /\ backend = "sqlite"
    /\ pc[p] = "call"
    /\ req[p].op = "create"
    /\ \E fault \in Faults \cup {NoFault} :
        LET golink == req[p].golink
            result == SqliteInsertResult(rows, golink, fault)
        IN /\ rows' = IF result.tag = "Ok" THEN rows \cup {golink} ELSE rows
           /\ resp' = [resp EXCEPT ![p] = Answer(req[p], CreateReply(result, golink))]
    /\ pc' = [pc EXCEPT ![p] = "idle"]
    /\ req' = [req EXCEPT ![p] = NoReq]
    /\ UNCHANGED <<backend, data, rwlock, nreq, clock, uuids, total_count,
                   vInput, vResult>>

(***************************************************************************)
(* get_golink                                                              *)
(***************************************************************************)
get_golink(p) ==
    /\ FirstIdle(p)
    /\ nreq < MaxRequests
    /\ \E short_link \in PathKeys :
        req' = [req EXCEPT ![p] = [op |-> "get", short_link |-> short_link]]
    /\ pc' = [pc EXCEPT ![p] = "call"]
    /\ resp' = [resp EXCEPT ![p] = NoResp]
    /\ nreq' = nreq + 1
    /\ UNCHANGED <<backend, data, rwlock, rows, clock, uuids, total_count,
                   vInput, vResult>>

HashMapStorage_get(p) ==
    /\ backend = "hashmap"
    /\ pc[p] = "locked"
    /\ req[p].op = "get"
    /\ resp' = [resp EXCEPT ![p] = Answer(req[p], GetReply(HashMapGet(data, req[p].short_link)))]
    /\ rwlock' = Unlocked(rwlock, p)
    /\ pc' = [pc EXCEPT ![p] = "idle"]
    /\ req' = [req EXCEPT ![p] = NoReq]
    /\ UNCHANGED <<backend, data, rows, nreq, clock, uuids, total_count,
                   vInput, vResult>>

\* the results SqliteStorage::get can return on a table: fetch_optional
\* gives a matching row if there is one
SqliteGetResults(table, k, fault) ==
    IF fault # NoFault THEN {DatabaseError(fault)}
    ELSE IF SelectByShortLink(table, k) = {} THEN {ErrNotFound}
    ELSE {StorageOk(r) : r \in SelectByShortLink(table, k)}

SqliteStorage_get(p) ==
    /\ backend = "sqlite"
    /\ pc[p] = "call"
    /\ req[p].op = "get"
    /\ \E fault \in Faults \cup {NoFault} :
        \E result \in SqliteGetResults(rows, req[p].short_link, fault) :
            resp' = [resp EXCEPT ![p] = Answer(req[p], GetReply(result))]
    /\ pc' = [pc EXCEPT ![p] = "idle"]
    /\ req' = [req EXCEPT ![p] = NoReq]
    /\ UNCHANGED <<backend, data, rwlock, rows, nreq, clock, uuids,
                   total_count, vInput, vResult>>

(***************************************************************************)
(* get_all_golinks                                                         *)
(***************************************************************************)
get_all_golinks(p) ==
    /\ FirstIdle(p)
    /\ nreq < MaxRequests
    /\ \E params \in QueryParams :
        LET page == PageOf(params)
            page_size == PageSizeOf(params)
            use_pagination == UsePagination(params)
        IN req' = [req EXCEPT ![p] =
                IF use_pagination
                THEN [op |-> "get_paginated", page |-> page,
                      page_size |-> page_size]
                ELSE [op |-> "get_all"]]
    /\ pc' = [pc EXCEPT ![p] = "call"]
    /\ resp' = [resp EXCEPT ![p] = NoResp]
    /\ nreq' = nreq + 1
    /\ UNCHANGED <<backend, data, rwlock, rows, clock, uuids, total_count,
                   vInput, vResult>>

\* HashMapStorage::get_all: the values as the map iterates over them
HashMapStorage_get_all(p) ==
    /\ backend = "hashmap"
    /\ pc[p] = "locked"
    /\ req[p].op = "get_all"
    /\ resp' = [resp EXCEPT ![p] = Answer(req[p], GetAllReply(StorageOk(HashMapValues(data))))]
    /\ rwlock' = Unlocked(rwlock, p)
    /\ pc' = [pc EXCEPT ![p] = "idle"]
    /\ req' = [req EXCEPT ![p] = NoReq]
    /\ UNCHANGED <<backend, data, rows, nreq, clock, uuids, total_count,
                   vInput, vResult>>

\* a get_paginated that counts the items of the slice
HashMapPaginated_SliceTotal(store, page, page_size) ==
    LET all_golinks == sort_by_created_at_desc(HashMapValues(store))
        paginated_items ==
            SkipTake(all_golinks, OffsetOf(page, page_size), page_size)
    IN <<paginated_items, Len(paginated_items)>>

\* the value HashMapStorage::get_paginated returns on a map
HashMapPaginated(store, page, page_size) ==
    LET all_golinks == sort_by_created_at_desc(HashMapValues(store))
        total_items == Len(all_golinks)
        offset == OffsetOf(page, page_size)
        paginated_items == IF offset < total_items
                           THEN SkipTake(all_golinks, offset, page_size)
                           ELSE <<>>
    IN <<paginated_items, total_items>>

\* a get_paginated that reports a total kept from before instead of the
\* length of the values it has just collected
HashMapStorage_get_paginated_StaleTotal(p) ==
    /\ backend = "hashmap"
    /\ pc[p] = "locked"
    /\ req[p].op = "get_paginated"
    /\ resp' = [resp EXCEPT ![p] = Answer(req[p],
            GetPaginatedReply(
                StorageOk(<<HashMapPaginated(data, req[p].page,
                                             req[p].page_size)[1],
                            total_count[p]>>),
                req[p].page, req[p].page_size))]
    /\ rwlock' = Unlocked(rwlock, p)
    /\ pc' = [pc EXCEPT ![p] = "idle"]
    /\ req' = [req EXCEPT ![p] = NoReq]
    /\ UNCHANGED <<backend, data, rows, nreq, clock, uuids, total_count,
                   vInput, vResult>>

HashMapStorage_get_paginated(p) ==
    /\ backend = "hashmap"
    /\ pc[p] = "locked"
    /\ req[p].op = "get_paginated"
    /\ resp' = [resp EXCEPT ![p] = Answer(req[p],
            GetPaginatedReply(
                StorageOk(HashMapPaginated(data, req[p].page, req[p].page_size)),
                req[p].page, req[p].page_size))]
    /\ rwlock' = Unlocked(rwlock, p)
    /\ pc' = [pc EXCEPT ![p] = "idle"]
    /\ req' = [req EXCEPT ![p] = NoReq]
    /\ UNCHANGED <<backend, data, rows, nreq, clock, uuids, total_count,
                   vInput, vResult>>

\* SqliteStorage::get_all: one SELECT .. ORDER BY created_at DESC
SqliteStorage_get_all(p) ==
    /\ backend = "sqlite"
    /\ pc[p] = "call"
    /\ req[p].op = "get_all"
    /\ \E fault \in Faults \cup {NoFault} :
        IF fault # NoFault
        THEN resp' = [resp EXCEPT ![p] = Answer(req[p], GetAllReply(DatabaseError(fault)))]
        ELSE \E listing \in OrderByCreatedAtDesc(rows) :
                resp' = [resp EXCEPT ![p] = Answer(req[p], GetAllReply(StorageOk(listing)))]
    /\ pc' = [pc EXCEPT ![p] = "idle"]
    /\ req' = [req EXCEPT ![p] = NoReq]
    /\ UNCHANGED <<backend, data, rwlock, rows, nreq, clock, uuids,
                   total_count, vInput, vResult>>

\* SqliteStorage::get_paginated, first statement: SELECT COUNT(*)
SqliteStorage_get_paginated_count(p) ==
    /\ backend = "sqlite"
    /\ pc[p] = "call"
    /\ req[p].op = "get_paginated"
    /\ \E fault \in Faults \cup {NoFault} :
        IF fault # NoFault
        THEN /\ resp' = [resp EXCEPT ![p] = Answer(req[p],
                    GetPaginatedReply(DatabaseError(fault),
                                      req[p].page, req[p].page_size))]
             /\ pc' = [pc EXCEPT ![p] = "idle"]
             /\ req' = [req EXCEPT ![p] = NoReq]
             /\ total_count' = total_count
        ELSE /\ total_count' = [total_count EXCEPT ![p] = CountAll(rows)]
             /\ pc' = [pc EXCEPT ![p] = "second"]
             /\ UNCHANGED <<req, resp>>
    /\ UNCHANGED <<backend, data, rwlock, rows, nreq, clock, uuids,
                   vInput, vResult>>

\* ... second statement: SELECT .. ORDER BY created_at DESC LIMIT ? OFFSET ?
SqliteStorage_get_paginated(p) ==
    /\ backend = "sqlite"
    /\ pc[p] = "second"
    /\ req[p].op = "get_paginated"
    /\ \E fault \in Faults \cup {NoFault} :
        IF fault # NoFault
        THEN resp' = [resp EXCEPT ![p] = Answer(req[p],
                GetPaginatedReply(DatabaseError(fault),
                                  req[p].page, req[p].page_size))]
        ELSE \E items \in SqliteSelectPage(rows, req[p].page_size,
                                OffsetOf(req[p].page, req[p].page_size)) :
                resp' = [resp EXCEPT ![p] = Answer(req[p],
                    GetPaginatedReply(StorageOk(<<items, total_count[p]>>),
                                      req[p].page, req[p].page_size))]
    /\ pc' = [pc EXCEPT ![p] = "idle"]
    /\ req' = [req EXCEPT ![p] = NoReq]
    /\ total_count' = [total_count EXCEPT ![p] = 0]
    /\ UNCHANGED <<backend, data, rwlock, rows, nreq, clock, uuids,
                   vInput, vResult>>

(***************************************************************************)
(* update_golink                                                           *)
(***************************************************************************)
\* the handler, called with a path parameter out of paths (the route puts no
\* condition on the parameter)
update_golink_on(p, paths) ==
    /\ FirstIdle(p)
    /\ nreq < MaxRequests
    /\ \E short_link \in paths, url \in UpdateUrls :
        req' = [req EXCEPT ![p] =
            [op |-> "update", short_link |-> short_link, url |-> url]]
    /\ pc' = [pc EXCEPT ![p] = "call"]
    /\ resp' = [resp EXCEPT ![p] = NoResp]
    /\ nreq' = nreq + 1
    /\ UNCHANGED <<backend, data, rwlock, rows, clock, uuids, total_count,
                   vInput, vResult>>

update_golink(p) == update_golink_on(p, PathKeys)

\* an update that inserts an entity when the key is absent
HashMapSetUrl_Upsert(store, k, url) ==
    IF contains_key(store, k)
    THEN [store EXCEPT ![IndexOfKey(store, k)].value.url = url]
    ELSE Append(store, Entry(k, Golink(<<>>, k, url, <<>>)))

\* store.get_mut(short_link), golink.url = url: the map afterwards
HashMapSetUrl(store, k, url) ==
    IF contains_key(store, k)
    THEN [store EXCEPT ![IndexOfKey(store, k)].value.url = url]
    ELSE store

HashMapStorage_update(p) ==
    /\ backend = "hashmap"
    /\ pc[p] = "locked"
    /\ req[p].op = "update"
    /\ data' = HashMapSetUrl(data, req[p].short_link, req[p].url)
    /\ resp' = [resp EXCEPT ![p] = Answer(req[p],
            UpdateReply(IF contains_key(data, req[p].short_link)
                        THEN HashMapGet(data', req[p].short_link)
                        ELSE ErrNotFound))]
    /\ rwlock' = Unlocked(rwlock, p)
    /\ pc' = [pc EXCEPT ![p] = "idle"]
    /\ req' = [req EXCEPT ![p] = NoReq]
    /\ UNCHANGED <<backend, rows, nreq, clock, uuids, total_count, vInput,
                   vResult>>

\* SqliteStorage::update, first statement: UPDATE golinks SET url = ? ..
SqliteStorage_update(p) ==
    /\ backend = "sqlite"
    /\ pc[p] = "call"
    /\ req[p].op = "update"
    /\ \E fault \in Faults \cup {NoFault} :
        IF fault # NoFault
        THEN /\ resp' = [resp EXCEPT ![p] = Answer(req[p], UpdateReply(DatabaseError(fault)))]
             /\ pc' = [pc EXCEPT ![p] = "idle"]
             /\ req' = [req EXCEPT ![p] = NoReq]
             /\ rows' = rows
        ELSE IF RowsAffected(rows, req[p].short_link) = 0
        THEN /\ resp' = [resp EXCEPT ![p] = Answer(req[p], UpdateReply(ErrNotFound))]
             /\ pc' = [pc EXCEPT ![p] = "idle"]
             /\ req' = [req EXCEPT ![p] = NoReq]
             /\ rows' = rows
        ELSE /\ rows' = UpdateUrl(rows, req[p].short_link, req[p].url)
             /\ pc' = [pc EXCEPT ![p] = "second"]
             /\ UNCHANGED <<req, resp>>
    /\ UNCHANGED <<backend, data, rwlock, nreq, clock, uuids, total_count,
                   vInput, vResult>>

\* a fetch that, on a fault, starts the update over
SqliteStorage_update_get_Retry(p) ==
    /\ backend = "sqlite"
    /\ pc[p] = "second"
    /\ req[p].op = "update"
    /\ \E fault \in Faults \cup {NoFault} :
        IF fault # NoFault
        THEN /\ pc' = [pc EXCEPT ![p] = "call"]
             /\ UNCHANGED <<req, resp>>
        ELSE /\ \E result \in SqliteGetResults(rows, req[p].short_link,
                                                NoFault) :
                    resp' = [resp EXCEPT ![p] =
                                Answer(req[p], UpdateReply(result))]
             /\ pc' = [pc EXCEPT ![p] = "idle"]
             /\ req' = [req EXCEPT ![p] = NoReq]
    /\ UNCHANGED <<backend, data, rwlock, rows, nreq, clock, uuids,
                   total_count, vInput, vResult>>

\* ... then self.get(short_link).await fetches the record
SqliteStorage_update_get(p) ==
    /\ backend = "sqlite"
    /\ pc[p] = "second"
    /\ req[p].op = "update"
    /\ \E fault \in Faults \cup {NoFault} :
        \E result \in SqliteGetResults(rows, req[p].short_link, fault) :
            resp' = [resp EXCEPT ![p] = Answer(req[p], UpdateReply(result))]
    /\ pc' = [pc EXCEPT ![p] = "idle"]
    /\ req' = [req EXCEPT ![p] = NoReq]
    /\ UNCHANGED <<backend, data, rwlock, rows, nreq, clock, uuids,
                   total_count, vInput, vResult>>

(***************************************************************************)
(* delete_golink                                                           *)
(***************************************************************************)
delete_golink_on(p, paths) ==
    /\ FirstIdle(p)
    /\ nreq < MaxRequests
    /\ \E short_link \in paths :
        req' = [req EXCEPT ![p] = [op |-> "delete", short_link |-> short_link]]
    /\ pc' = [pc EXCEPT ![p] = "call"]
    /\ resp' = [resp EXCEPT ![p] = NoResp]
    /\ nreq' = nreq + 1
    /\ UNCHANGED <<backend, data, rwlock, rows, clock, uuids, total_count,
                   vInput, vResult>>

\* store.remove(short_link).ok_or(StorageError::NotFound)?
delete_golink(p) == delete_golink_on(p, PathKeys)

HashMapStorage_delete(p) ==
    /\ backend = "hashmap"
    /\ pc[p] = "locked"
    /\ req[p].op = "delete"
    /\ data' = HashMapRemove(data, req[p].short_link)
    /\ resp' = [resp EXCEPT ![p] = Answer(req[p],
            DeleteReply(IF contains_key(data, req[p].short_link)
                        THEN StorageOk(Unit) ELSE ErrNotFound))]
    /\ rwlock' = Unlocked(rwlock, p)
    /\ pc' = [pc EXCEPT ![p] = "idle"]
    /\ req' = [req EXCEPT ![p] = NoReq]
    /\ UNCHANGED <<backend, rows, nreq, clock, uuids, total_count, vInput,
                   vResult>>

\* SqliteStorage::delete: one DELETE statement, then rows_affected()
SqliteStorage_delete(p) ==
    /\ backend = "sqlite"
    /\ pc[p] = "call"
    /\ req[p].op = "delete"
    /\ \E fault \in Faults \cup {NoFault} :
        IF fault # NoFault
        THEN /\ resp' = [resp EXCEPT ![p] = Answer(req[p], DeleteReply(DatabaseError(fault)))]
             /\ rows' = rows
        ELSE /\ rows' = DeleteByShortLink(rows, req[p].short_link)
             /\ resp' = [resp EXCEPT ![p] = Answer(req[p],
                    DeleteReply(IF RowsAffected(rows, req[p].short_link) = 0
                                THEN ErrNotFound ELSE StorageOk(Unit)))]
    /\ pc' = [pc EXCEPT ![p] = "idle"]
    /\ req' = [req EXCEPT ![p] = NoReq]
    /\ UNCHANGED <<backend, data, rwlock, nreq, clock, uuids, total_count,
                   vInput, vResult>>

Next ==
    \/ \E p \in Procs : RwLockWrite(p)
    \/ \E p \in Procs : RwLockRead(p)
    \/ \E p \in Procs : create_golink(p)
    \/ \E p \in Procs : HashMapStorage_create_check(p)
    \/ \E p \in Procs : HashMapStorage_create(p)
    \/ \E p \in Procs : SqliteStorage_create(p)
    \/ \E p \in Procs : get_golink(p)
    \/ \E p \in Procs : HashMapStorage_get(p)
    \/ \E p \in Procs : SqliteStorage_get(p)
    \/ \E p \in Procs : get_all_golinks(p)
    \/ \E p \in Procs : HashMapStorage_get_all(p)
    \/ \E p \in Procs : HashMapStorage_get_paginated(p)
    \/ \E p \in Procs : SqliteStorage_get_all(p)
    \/ \E p \in Procs : SqliteStorage_get_paginated_count(p)
    \/ \E p \in Procs : SqliteStorage_get_paginated(p)
    \/ \E p \in Procs : update_golink(p)
    \/ \E p \in Procs : HashMapStorage_update(p)
    \/ \E p \in Procs : SqliteStorage_update(p)
    \/ \E p \in Procs : SqliteStorage_update_get(p)
    \/ \E p \in Procs : delete_golink(p)
    \/ \E p \in Procs : HashMapStorage_delete(p)
    \/ \E p \in Procs : SqliteStorage_delete(p)

Spec == Init /\ [][Next]_vars

(***************************************************************************)
(* The service on HashMapStorage alone, with requests on one short_link,   *)
(* and with its scheduling: the runtime polls every task that can go on    *)
(* (weak fairness of the steps a task takes inside a storage method), and  *)
(* tokio's RwLock hands its guards out fairly, so that a task that waits   *)
(* in read().await or write().await is not passed over forever (strong     *)
(* fairness of taking the guard).                                          *)
(***************************************************************************)
InitHashMap == Init /\ backend = "hashmap"

\* self.data.write().await or self.data.read().await of task p
RwLockAcquire(p) == RwLockWrite(p) \/ RwLockRead(p)

\* a step of task p between taking the guard and the return of the method
HashMapStorage_step(p) ==
    \/ HashMapStorage_create_check(p)
    \/ HashMapStorage_create(p)
    \/ HashMapStorage_get(p)
    \/ HashMapStorage_get_all(p)
    \/ HashMapStorage_get_paginated(p)
    \/ HashMapStorage_update(p)
    \/ HashMapStorage_delete(p)

\* the request task p takes in this step, if it names a short_link that
\* reaches storage, names "go/a": the one lock guards the whole map, so the
\* requests of this workload all meet at one key
OnGoA(p) ==
    req'[p].op \in {"create", "get", "update", "delete"} =>
        req'[p].short_link = GoA

NextHashMap ==
    \/ \E p \in Procs : create_golink(p) /\ OnGoA(p)
    \/ \E p \in Procs : get_golink(p) /\ OnGoA(p)
    \/ \E p \in Procs : get_all_golinks(p)
    \/ \E p \in Procs : update_golink(p) /\ OnGoA(p)
    \/ \E p \in Procs : delete_golink(p) /\ OnGoA(p)
    \/ \E p \in Procs : RwLockAcquire(p)
    \/ \E p \in Procs : HashMapStorage_step(p)

SpecHashMap ==
    /\ InitHashMap
    /\ [][NextHashMap]_vars
    /\ \A p \in Procs :
        /\ SF_vars(RwLockAcquire(p))
        /\ WF_vars(HashMapStorage_step(p))

(***************************************************************************)
(* A workload of create requests only: concurrent creates with nothing     *)
(* else going on.                                                          *)
(***************************************************************************)
NextCreates ==
    \/ \E p \in Procs : create_golink(p)
    \/ \E p \in Procs : RwLockWrite(p)
    \/ \E p \in Procs : HashMapStorage_create_check(p)
    \/ \E p \in Procs : HashMapStorage_create(p)
    \/ \E p \in Procs : SqliteStorage_create(p)

SpecCreates == Init /\ [][NextCreates]_vars

(***************************************************************************)
(* A workload of writes whose path parameter is any short_link, matching   *)
(* the pattern or not: creates, updates and deletes.                       *)
(***************************************************************************)
NextWrites ==
    \/ \E p \in Procs : create_golink(p)
    \/ \E p \in Procs : update_golink_on(p, ShortLinks)
    \/ \E p \in Procs : delete_golink_on(p, ShortLinks)
    \/ \E p \in Procs : RwLockWrite(p)
    \/ \E p \in Procs : HashMapStorage_create_check(p)
    \/ \E p \in Procs : HashMapStorage_create(p)
    \/ \E p \in Procs : HashMapStorage_update(p)
    \/ \E p \in Procs : HashMapStorage_delete(p)
    \/ \E p \in Procs : SqliteStorage_create(p)
    \/ \E p \in Procs : SqliteStorage_update(p)
    \/ \E p \in Procs : SqliteStorage_update_get(p)
    \/ \E p \in Procs : SqliteStorage_delete(p)

SpecWrites == Init /\ [][NextWrites]_vars

(***************************************************************************)
(* A workload of listings only, on a store that sequential creates have    *)
(* filled beforehand: the i-th create made "go/a", "go/b", ... at an       *)
(* instant no earlier than the one before it.                              *)
(***************************************************************************)
\* "go/a", "go/b", "go/c", ...
ItemKey(i) == <<103, 111, 47, 96 + i>>

\* the entities of n sequential creates at the clock readings stamps[1..n]
Items(n, stamps) ==
    [i \in 1..n |->
        Golink(UuidToString(i), ItemKey(i), "https://example.com",
               to_rfc3339(Instant(stamps[i])))]

\* clock readings of n sequential creates, the clock starting at 0: each
\* create reads what NowFrom allows after the reading before it
Stamps(n) ==
    {st \in [1..n -> 0..MaxClock] :
        \A i \in 1..n : st[i] \in NowFrom(IF i = 1 THEN 0 ELSE st[i - 1])}

InitList ==
    /\ backend \in {"hashmap", "sqlite"}
    /\ \E n \in 0..MaxItems : \E stamps \in Stamps(n) :
        LET items == Items(n, stamps) IN
        /\ uuids = n
        /\ clock = (IF n = 0 THEN 0 ELSE stamps[n])
        /\ IF backend = "hashmap"
           THEN /\ rows = {}
                /\ \E order \in Listings(1..n) :
                    data = [i \in 1..n |->
                        Entry(items[order[i]].short_link, items[order[i]])]
           ELSE /\ data = <<>>
                /\ rows = {items[i] : i \in 1..n}
    /\ rwlock = [writers |-> {}, readers |-> {}]
    /\ pc = [p \in Procs |-> "idle"]
    /\ req = [p \in Procs |-> NoReq]
    /\ total_count = [p \in Procs |-> 0]
    /\ resp = [p \in Procs |-> NoResp]
    /\ nreq = 0
    /\ vInput = <<>>
    /\ vResult = validate_golink_pattern(<<>>)

NextList ==
    \/ \E p \in Procs : get_all_golinks(p)
    \/ \E p \in Procs : RwLockRead(p)
    \/ \E p \in Procs : HashMapStorage_get_all(p)
    \/ \E p \in Procs : HashMapStorage_get_paginated(p)
    \/ \E p \in Procs : SqliteStorage_get_all(p)
    \/ \E p \in Procs : SqliteStorage_get_paginated_count(p)
    \/ \E p \in Procs : SqliteStorage_get_paginated(p)

SpecList == InitList /\ [][NextList]_vars

(***************************************************************************)
(* get_all_golinks on its own: the first list request a server gets, run   *)
(* from its query parameters to its reply with nothing else going on, on a *)
(* store that sequential creates have filled.  vInput is the query,        *)
(* vResult the reply.                                                      *)
(***************************************************************************)
\* GoStorage::get_all() called on the store as it is: the values it can
\* return
GoStorage_get_all ==
    IF backend = "hashmap"
    THEN {HashMapValues(data)}
    ELSE OrderByCreatedAtDesc(rows)

\* GoStorage::get_paginated(page, page_size) called on the store as it is,
\* with no write meanwhile: the values (slice, total) it can return
GoStorage_get_paginated(page, page_size) ==
    IF backend = "hashmap"
    THEN {HashMapPaginated(data, page, page_size)}
    ELSE {<<items, CountAll(rows)>> :
            items \in SqliteSelectPage(rows, page_size,
                                       OffsetOf(page, page_size))}

\* the query carries a page parameter, a page_size parameter, or both
Paginates(params) == {"page", "page_size"} \cap DOMAIN params # {}

\* the replies get_all_golinks can give to a query when storage meets no
\* fault
ListReplies(params) ==
    LET page == PageOf(params)
        page_size == PageSizeOf(params)
    IN IF UsePagination(params)
       THEN {GetPaginatedReply(StorageOk(r), page, page_size) :
                r \in GoStorage_get_paginated(page, page_size)}
       ELSE {GetAllReply(StorageOk(all)) : all \in GoStorage_get_all}

ListNext(params) ==
    /\ nreq = 0
    /\ nreq' = 1
    /\ vInput' = params
    /\ vResult' \in ListReplies(params)
    /\ UNCHANGED <<backend, data, rwlock, rows, pc, req, total_count, resp,
                   clock, uuids>>

NextParams == \E params \in WideQueryParams : ListNext(params)

SpecParams == InitList /\ [][NextParams]_vars

(***************************************************************************)
(* get_all_golinks on its own with page numbers up to the largest a usize  *)
(* holds.                                                                  *)
(***************************************************************************)
RECURSIVE ToDecimal(_)
\* n as the decimal text a query carries
ToDecimal(n) ==
    IF n < 10 THEN <<48 + n>> ELSE ToDecimal(n \div 10) \o <<48 + (n % 10)>>

\* pages: small ones; the first whose offset at page_size 100 does not fit
\* usize; the first whose offset at page_size 1 does not fit i64; the
\* largest usize; and one more, which no usize holds
LargeQueryParams ==
    {[page |-> ToDecimal(page), page_size |-> ToDecimal(page_size)] :
        page \in {1, 2, 3, UsizeMax \div 100 + 2, UsizeModulus \div 2 + 1,
                  UsizeMax, UsizeModulus},
        page_size \in {1, 2, 100}}

\* the handler's task panics at the multiplication: no reply is sent
Panicked == Reply("get_paginated", 0, [kind |-> "panic"])

\* what a paginated list request comes to: the reply of a build that wraps
\* on overflow, or the panic of a build that checks
PaginatedOutcomes(params) ==
    ListReplies(params)
    \cup (IF usize_mul_overflows(saturating_sub(PageOf(params), 1),
                                 PageSizeOf(params))
          THEN {Panicked} ELSE {})

OffsetNext(params) ==
    /\ nreq = 0
    /\ nreq' = 1
    /\ vInput' = params
    /\ vResult' \in PaginatedOutcomes(params)
    /\ UNCHANGED <<backend, data, rwlock, rows, pc, req, total_count, resp,
                   clock, uuids>>

NextOffset == \E params \in LargeQueryParams : OffsetNext(params)

SpecOffset == InitList /\ [][NextOffset]_vars

(***************************************************************************)
(* GoStorage on its own: a caller drives a HashMapStorage and a            *)
(* SqliteStorage, both started empty, with the same calls one after the    *)
(* other (the way the tests of storage.rs drive each of them).  vInput is  *)
(* the call, vResult the pair of results <<HashMap's, SQLite's>>.          *)
(***************************************************************************)
\* arguments a caller of the storage capability can pass
RawPages == {0, 1, 2}
RawPageSizes == {0, 1, 2, 101}

\* the calls of the trait; a Golink to create is built the way
\* create_test_golink builds it, with a fresh id and the time of the call
StorageCalls ==
    {[op |-> "create", now |-> t,
      golink |-> Golink(UuidToString(uuids + 1), k, url,
                        to_rfc3339(Instant(t)))] :
        k \in PathKeys, url \in CreateUrls, t \in NowFrom(clock)}
    \cup {[op |-> op, short_link |-> k] :
            op \in {"get", "delete", "exists"}, k \in PathKeys}
    \cup {[op |-> "update", short_link |-> k, url |-> url] :
            k \in PathKeys, url \in UpdateUrls}
    \cup {[op |-> "get_all"]}
    \cup {[op |-> "get_paginated", page |-> page, page_size |-> page_size] :
            page \in RawPages, page_size \in RawPageSizes}

\* what a call returns and the store it leaves
Outcome(result, store) == [result |-> result, store |-> store]

\* an exists that looks whether the map holds anything at all
HashMapStorage_exists_Any(store, k) == StorageOk(store # <<>>)

\* HashMapStorage::exists
HashMapStorage_exists(store, k) == StorageOk(contains_key(store, k))

\* impl GoStorage for HashMapStorage: each method from taking the guard to
\* dropping it
HashMapStorage_call(store, call) ==
    IF call.op = "create"
    THEN IF contains_key(store, call.golink.short_link)
         THEN {Outcome(ErrAlreadyExists, store)}
         ELSE {Outcome(StorageOk(Unit), s) :
                s \in HashMapInsert(store, call.golink.short_link,
                                    call.golink)}
    ELSE IF call.op = "get"
    THEN {Outcome(HashMapGet(store, call.short_link), store)}
    ELSE IF call.op = "get_all"
    THEN {Outcome(StorageOk(HashMapValues(store)), store)}
    ELSE IF call.op = "get_paginated"
    THEN {Outcome(StorageOk(HashMapPaginated(store, call.page,
                                             call.page_size)), store)}
    ELSE IF call.op = "update"
    THEN IF contains_key(store, call.short_link)
         THEN LET s == HashMapSetUrl(store, call.short_link, call.url)
              IN {Outcome(HashMapGet(s, call.short_link), s)}
         ELSE {Outcome(ErrNotFound, store)}
    ELSE IF call.op = "delete"
    THEN IF contains_key(store, call.short_link)
         THEN {Outcome(StorageOk(Unit), HashMapRemove(store, call.short_link))}
         ELSE {Outcome(ErrNotFound, store)}
    ELSE {Outcome(HashMapStorage_exists(store, call.short_link), store)}

\* SqliteStorage::exists: SELECT COUNT(*) .. WHERE short_link = ?, count > 0
SqliteStorage_exists(table, k) ==
    StorageOk(Cardinality(SelectByShortLink(table, k)) > 0)

\* impl GoStorage for SqliteStorage: each method, its statements one after
\* the other with no other connection at work; a fault met by its first
\* statement ends it
SqliteStorage_call(table, call, fault) ==
    IF fault # NoFault
    THEN {Outcome(DatabaseError(fault), table)}
    ELSE IF call.op = "create"
    THEN LET result == SqliteInsertResult(table, call.golink, NoFault)
         IN {Outcome(result, IF result.tag = "Ok"
                             THEN table \cup {call.golink} ELSE table)}
    ELSE IF call.op = "get"
    THEN {Outcome(r, table) :
            r \in SqliteGetResults(table, call.short_link, NoFault)}
    ELSE IF call.op = "get_all"
    THEN {Outcome(StorageOk(all), table) :
            all \in OrderByCreatedAtDesc(table)}
    ELSE IF call.op = "get_paginated"
    THEN {Outcome(StorageOk(<<items, CountAll(table)>>), table) :
            items \in SqliteSelectPage(table, call.page_size,
                                       OffsetOf(call.page, call.page_size))}
    ELSE IF call.op = "update"
    THEN IF RowsAffected(table, call.short_link) = 0
         THEN {Outcome(ErrNotFound, table)}
         ELSE LET t == UpdateUrl(table, call.short_link, call.url)
              IN {Outcome(r, t) :
                    r \in SqliteGetResults(t, call.short_link, NoFault)}
    ELSE IF call.op = "delete"
    THEN IF RowsAffected(table, call.short_link) = 0
         THEN {Outcome(ErrNotFound, table)}
         ELSE {Outcome(StorageOk(Unit),
                       DeleteByShortLink(table, call.short_link))}
    ELSE {Outcome(SqliteStorage_exists(table, call.short_link), table)}

InitPair ==
    /\ backend = "both"
    /\ data = <<>>
    /\ rwlock = [writers |-> {}, readers |-> {}]
    /\ rows = {}
    /\ pc = [p \in Procs |-> "idle"]
    /\ req = [p \in Procs |-> NoReq]
    /\ total_count = [p \in Procs |-> 0]
    /\ resp = [p \in Procs |-> NoResp]
    /\ nreq = 0
    /\ clock = 0
    /\ uuids = 0
    /\ vInput = [op |-> "none"]
    /\ vResult = <<Unit, Unit>>

\* one call of the trait, made on both stores
GoStorage_call(call, fault) ==
    /\ nreq < MaxRequests
    /\ nreq' = nreq + 1
    /\ \E h \in HashMapStorage_call(data, call) :
       \E s \in SqliteStorage_call(rows, call, fault) :
            /\ data' = h.store
            /\ rows' = s.store
            /\ vResult' = <<h.result, s.result>>
    /\ vInput' = call
    /\ uuids' = IF call.op = "create" THEN uuids + 1 ELSE uuids
    /\ clock' = IF call.op = "create" THEN call.now ELSE clock
    /\ UNCHANGED <<backend, rwlock, pc, req, total_count, resp>>

\* no lower-level fault is met
NextPair == \E call \in StorageCalls : GoStorage_call(call, NoFault)

SpecPair == InitPair /\ [][NextPair]_vars

\* a CREATE TABLE that starts the table afresh
CreateTable_Afresh(table) == {}

\* CREATE TABLE IF NOT EXISTS golinks (..) run on a database that has the
\* table: the table and its rows stay (a database without it gets the empty
\* table every run starts with)
CreateTableIfNotExists(table) == table

\* the process ends and a new one starts on the same location:
\* SqliteStorage::new connects to the database file and runs CREATE TABLE IF
\* NOT EXISTS; HashMapStorage::new makes an empty map
Storage_new ==
    /\ rows' = CreateTableIfNotExists(rows)
    /\ data' = <<>>
    /\ vInput' = [op |-> "new"]
    /\ vResult' = <<StorageOk(Unit), StorageOk(Unit)>>
    /\ UNCHANGED <<backend, rwlock, pc, req, total_count, resp, nreq, clock,
                   uuids>>

NextRestart == NextPair \/ Storage_new

SpecRestart == InitPair /\ [][NextRestart]_vars

(***************************************************************************)
(* validate_golink_pattern on its own: every string over Alphabet of at    *)
(* most MaxStrLen characters is built up and validated.                    *)
(***************************************************************************)
InitValidate == Init /\ backend = "hashmap"

ValidateNext(c) ==
    /\ Len(vInput) < MaxStrLen
    /\ vInput' = Append(vInput, c)
    /\ vResult' = validate_golink_pattern(vInput')
    /\ UNCHANGED <<backend, data, rwlock, rows, pc, req, total_count, resp,
                   nreq, clock, uuids>>

NextValidate == \E c \in Alphabet : ValidateNext(c)

SpecValidate == InitValidate /\ [][NextValidate]_vars


(***************************************************************************)
(* What the claims are stated over.                                        *)
(***************************************************************************)
\* the live Golinks of the backend in use
Live == {data[i].value : i \in DOMAIN data} \cup rows

\* the live Golinks that carry short_link k
LiveAt(k) == {g \in Live : g.short_link = k}

\* task p's request of kind op is answered in this step
Returns(p, op) == req[p].op = op /\ pc[p] # "idle" /\ pc'[p] = "idle"

\* the storage statement of task p's request of kind op that decides about
\* the key runs in this step: the whole operation under the map's guard, or
\* the first SQL statement
Decides(p, op) ==
    /\ req[p].op = op
    /\ pc[p] = (IF backend = "hashmap" THEN "locked" ELSE "call")
    /\ pc'[p] # pc[p]

\* the reply written in this step reports a lower-level fault
Faulted(p) == resp'[p].status = INTERNAL_SERVER_ERROR

(***************************************************************************)
(* C1: in every reachable state of either backend there is at most one     *)
(* live Golink per short_link.                                             *)
(***************************************************************************)
C1_OneLivePerShortLink ==
    /\ \A i, j \in DOMAIN data :
        data[i].value.short_link = data[j].value.short_link => i = j
    /\ \A r1, r2 \in rows : r1.short_link = r2.short_link => r1 = r2

\* two Golinks are live and a duplicate create has been turned down
C1_Witness ==
    /\ Cardinality(Live) = 2
    /\ \E p \in Procs : resp[p].op = "create" /\ resp[p].status = CONFLICT

(***************************************************************************)
(* C2: storage create is atomic.  Among concurrent creates (SpecCreates: a  *)
(* workload of creates only) a create is answered with success only if its *)
(* short_link was absent right before the answer and its entity is the     *)
(* live one right after, never while another task holds a success for the  *)
(* same short_link; and, lower-level faults aside, it is answered with     *)
(* AlreadyExists (409) exactly if the short_link was present, so that of   *)
(* the creates of one short_link exactly one succeeds.                     *)
(***************************************************************************)
C2_CreateAtomic ==
    [][\A p \in Procs :
        Returns(p, "create") =>
            \A k \in {req[p].short_link} :
            /\ resp'[p].status \in {CREATED, CONFLICT, INTERNAL_SERVER_ERROR}
            /\ resp'[p].status = CREATED =>
                /\ LiveAt(k) = {}
                /\ LiveAt(k)' = {req[p].golink}
                /\ \A q \in Procs \ {p} :
                    ~(resp[q].op = "create" /\ resp[q].key = k
                      /\ resp[q].status = CREATED)
            /\ ~Faulted(p) =>
                (resp'[p].status = CONFLICT <=> LiveAt(k) # {})
      ]_vars

\* two creates of one short_link overlapped (the second task is used only
\* while the first is busy, and nothing else was requested): one was
\* answered 201, the other 409
C2_Witness ==
    /\ nreq = 2
    /\ resp[1].op = "create" /\ resp[2].op = "create"
    /\ resp[1].key = resp[2].key
    /\ {resp[1].status, resp[2].status} = {CREATED, CONFLICT}

(***************************************************************************)
(* C3: duplicate create.  A create of a short_link that is absent is       *)
(* answered 201 (faults aside) and adds exactly its entity; a create of a  *)
(* short_link that is live is answered AlreadyExists (409, faults aside)   *)
(* and whatever create is not answered 201 leaves the store untouched, so  *)
(* the live entity keeps the first create's url, id and created_at and the *)
(* other entities stay as they are.                                        *)
(***************************************************************************)
C3_DuplicateCreate ==
    [][\A p \in Procs :
        Returns(p, "create") =>
            \A k \in {req[p].short_link}, golink \in {req[p].golink} :
            /\ (LiveAt(k) = {} /\ ~Faulted(p)) =>
                /\ resp'[p].status = CREATED
                /\ resp'[p].body = JsonGolink(golink)
                /\ Live' = Live \cup {golink}
            /\ (LiveAt(k) # {} /\ ~Faulted(p)) =>
                /\ resp'[p].status = CONFLICT
                /\ golink \notin LiveAt(k)'
            /\ resp'[p].status # CREATED => storeVars' = storeVars
      ]_vars

\* a first create succeeded, then a second create of the same short_link was
\* turned down while the first create's entity is the live one
C3_Witness ==
    /\ nreq = 2
    /\ resp[1].op = "create"
    /\ resp[1].status = CONFLICT
    /\ resp[2] = NoResp
    /\ \E g \in LiveAt(resp[1].key) : g.id = UuidToString(1)

(***************************************************************************)
(* C4: a create whose short_link does not match the pattern is answered    *)
(* 400 by the handler itself: in the same step, with no storage call       *)
(* begun, the map's guard not taken and the store unchanged; so no create  *)
(* that reaches storage carries a non-matching short_link.                 *)
(***************************************************************************)
C4_InvalidCreateRejected ==
    [][\A p \in Procs :
        /\ (req'[p].op = "create" =>
                RegexIsMatch(req'[p].short_link)
                /\ req'[p].golink.short_link = req'[p].short_link)
        /\ (resp'[p] # resp[p] /\ resp'[p].op = "create"
             /\ ~RegexIsMatch(resp'[p].key)) =>
                /\ resp'[p].status = BAD_REQUEST
                /\ resp'[p].body.kind = "error"
                /\ pc[p] = "idle"
                /\ pc' = pc
                /\ req' = req
                /\ rwlock' = rwlock
                /\ storeVars' = storeVars
      ]_vars

\* a create of "go/@" was answered 400 while the store holds an entity
C4_Witness ==
    /\ Live # {}
    /\ \E p \in Procs :
        /\ resp[p].op = "create"
        /\ resp[p].key = GoAt
        /\ resp[p].status = BAD_REQUEST

(***************************************************************************)
(* C5: validate_golink_pattern accepts a short_link exactly if it is the   *)
(* literal "go/" followed by one or more characters, each an ASCII letter, *)
(* an ASCII digit, an underscore or a hyphen.                              *)
(***************************************************************************)
C5_PatternAccepts ==
    (vResult = "Ok") <=>
        /\ Len(vInput) >= 4
        /\ SubSeq(vInput, 1, 3) = <<103, 111, 47>>
        /\ \A i \in 4..Len(vInput) :
            vInput[i] \in (97..122) \cup (65..90) \cup (48..57) \cup {95, 45}

\* "go/" followed by a digit and a hyphen (in either order) has been
\* accepted
C5_Witness ==
    /\ vResult = "Ok"
    /\ Len(vInput) = 5
    /\ {vInput[4], vInput[5]} = {55, 45}

\* the Golinks a sequence lists
Listed(items) == {items[i] : i \in DOMAIN items}

(***************************************************************************)
(* C6: round trip.  A create that is answered 201 has stored the entity it *)
(* replies with: the short_link and url of the request, a non-empty id and *)
(* a non-empty created_at.  A get writes nothing and, faults aside, is     *)
(* answered 200 with the live entity of its short_link (404 if there is    *)
(* none), so gets with no write in between return the same entity, id and  *)
(* created_at included.                                                    *)
(***************************************************************************)
C6_RoundTrip ==
    [][\A p \in Procs :
        /\ (Returns(p, "create") /\ resp'[p].status = CREATED) =>
            \A g \in {resp'[p].body.golink} :
                /\ g.short_link = req[p].short_link
                /\ g.url \in CreateUrls
                /\ g.url = req[p].golink.url
                /\ g.id # <<>>
                /\ g.created_at # <<>>
                /\ LiveAt(g.short_link)' = {g}
        /\ Returns(p, "get") =>
            /\ storeVars' = storeVars
            /\ ~Faulted(p) =>
                IF LiveAt(req[p].short_link) = {}
                THEN resp'[p].status = NOT_FOUND
                ELSE /\ resp'[p].status = OK
                     /\ resp'[p].body.kind = "golink"
                     /\ resp'[p].body.golink \in LiveAt(req[p].short_link)
      ]_vars

\* a create, then a get of the created short_link answered 200 with the
\* entity of that create
C6_Witness ==
    /\ nreq = 2
    /\ uuids = 1
    /\ resp[2] = NoResp
    /\ resp[1].op = "get"
    /\ resp[1].status = OK
    /\ resp[1].body.golink.id = UuidToString(1)
    /\ resp[1].body.golink.short_link = resp[1].key

(***************************************************************************)
(* C7: update(key, url2) on an existing key changes the url of the key's   *)
(* entity to url2 and nothing else in the store, and (faults aside) is     *)
(* answered 200 with an entity that carries url2 and is the one stored     *)
(* under the key.                                                          *)
(***************************************************************************)
C7_UpdateExisting ==
    [][\A p \in Procs :
        req[p].op = "update" =>
        \A k \in {req[p].short_link}, url2 \in {req[p].url} :
        /\ (Decides(p, "update") /\ LiveAt(k) # {} /\ ~Faulted(p)) =>
            \A g \in LiveAt(k) :
                /\ LiveAt(k)' = {[g EXCEPT !.url = url2]}
                /\ Live' \ LiveAt(k)' = Live \ LiveAt(k)
        /\ (Returns(p, "update") /\ ~Faulted(p)
             /\ (pc[p] = "second" \/ LiveAt(k) # {})) =>
                /\ resp'[p].status = OK
                /\ resp'[p].body.kind = "golink"
                /\ resp'[p].body.golink.url = url2
                /\ resp'[p].body.golink \in LiveAt(k)'
      ]_vars

\* an update has changed its row and has yet to fetch it, and by now the
\* row is gone or carries another url
C7_Witness ==
    \E p \in Procs :
        /\ pc[p] = "second"
        /\ req[p].op = "update"
        /\ \A g \in LiveAt(req[p].short_link) : g.url # req[p].url

(***************************************************************************)
(* C8: update on an absent key is answered NotFound (404, faults aside),   *)
(* creates no entity for the key and leaves the store unchanged.           *)
(***************************************************************************)
C8_UpdateAbsent ==
    [][\A p \in Procs :
        (Decides(p, "update") /\ LiveAt(req[p].short_link) = {}) =>
            \A k \in {req[p].short_link} :
            /\ pc'[p] = "idle"
            /\ ~Faulted(p) => resp'[p].status = NOT_FOUND
            /\ LiveAt(k)' = {}
            /\ storeVars' = storeVars
      ]_vars

\* an update was answered 404 while the store holds an entity
C8_Witness ==
    /\ Live # {}
    /\ \E p \in Procs :
        /\ resp[p].op = "update"
        /\ resp[p].status = NOT_FOUND
        /\ LiveAt(resp[p].key) = {}

(***************************************************************************)
(* C9: a delete that is answered with success has removed the entity of    *)
(* its key and nothing else; from then on, until the key is created again, *)
(* a get of the key is answered NotFound (faults aside) and a listing, in  *)
(* full or by page, shows live entities only.                              *)
(***************************************************************************)
C9_DeleteRemoves ==
    [][\A p \in Procs :
        /\ (Returns(p, "delete") /\ resp'[p].status = OK) =>
            \A k \in {req[p].short_link} :
            /\ LiveAt(k) # {}
            /\ LiveAt(k)' = {}
            /\ Live' = Live \ LiveAt(k)
        /\ (Returns(p, "get") /\ LiveAt(req[p].short_link) = {}
             /\ ~Faulted(p)) =>
                resp'[p].status = NOT_FOUND
        /\ (Returns(p, "get_all") /\ ~Faulted(p)) =>
                Listed(resp'[p].body.data) = Live
        /\ (Returns(p, "get_paginated") /\ ~Faulted(p)) =>
                Listed(resp'[p].body.data) \subseteq Live
      ]_vars

\* a delete was answered with success: its key is gone and another entity
\* is still there
C9_Witness ==
    /\ Live # {}
    /\ \E p \in Procs :
        /\ resp[p].op = "delete"
        /\ resp[p].status = OK
        /\ LiveAt(resp[p].key) = {}

(***************************************************************************)
(* C10: delete on an absent key is answered NotFound (404, faults aside)   *)
(* and the store after the call equals the store before it.                *)
(***************************************************************************)
C10_DeleteAbsent ==
    [][\A p \in Procs :
        Returns(p, "delete") =>
            /\ (LiveAt(req[p].short_link) = {} /\ ~Faulted(p)) =>
                resp'[p].status = NOT_FOUND
            /\ LiveAt(req[p].short_link) = {} => storeVars' = storeVars
            /\ resp'[p].status = NOT_FOUND =>
                /\ LiveAt(req[p].short_link) = {}
                /\ storeVars' = storeVars
      ]_vars

\* a delete was answered 404 while the store holds an entity
C10_Witness ==
    /\ Live # {}
    /\ \E p \in Procs :
        /\ resp[p].op = "delete"
        /\ resp[p].status = NOT_FOUND

(***************************************************************************)
(* C11: for as long as a Golink is live its id, short_link and created_at  *)
(* stay what they were: whatever step is taken (a create, failed or not, a *)
(* get, a listing, an update, a delete of another key), a live entity that *)
(* is still there afterwards under its short_link or its id carries the    *)
(* same id, short_link and created_at; only url can differ.                *)
(***************************************************************************)
C11_IdentityImmutable ==
    [][\A g \in Live, h \in Live' :
        (h.short_link = g.short_link \/ h.id = g.id) =>
            /\ h.id = g.id
            /\ h.short_link = g.short_link
            /\ h.created_at = g.created_at
      ]_vars

\* an update has acted: a live entity carries a url other than the one it
\* was created with, and the id of the model's first create
C11_Witness ==
    \E g \in Live :
        /\ g.url \notin CreateUrls
        /\ g.id = UuidToString(1)
        /\ g.created_at # <<>>

\* a sequence of Golinks is in descending order of created_at
DescendingByCreatedAt(items) ==
    \A i \in 1..(Len(items) - 1) :
        StrCmp(items[i].created_at, items[i + 1].created_at) # "Less"

(***************************************************************************)
(* C12: getAll on either backend returns every live Golink exactly once,   *)
(* in descending order of created_at: a get_all that is answered without a *)
(* fault lists exactly the live entities, as many items as there are, and  *)
(* no item has a smaller created_at than the item after it.                *)
(***************************************************************************)
C12_GetAllOrdered ==
    [][\A p \in Procs :
        (Returns(p, "get_all") /\ ~Faulted(p)) =>
            /\ resp'[p].status = OK
            /\ Listed(resp'[p].body.data) = Live
            /\ Len(resp'[p].body.data) = Cardinality(Live)
            /\ DescendingByCreatedAt(resp'[p].body.data)
      ]_vars

\* a get_all was answered with two entities, the older one first
C12_Witness ==
    \E p \in Procs :
        /\ resp[p].op = "get_all"
        /\ resp[p].status = OK
        /\ Len(resp[p].body.data) = 2
        /\ StrCmp(resp[p].body.data[1].created_at,
                  resp[p].body.data[2].created_at) = "Less"

\* items is the window of page_size positions, starting right after the
\* first offset ones, of a listing of the live Golinks that is in
\* descending order of created_at
WindowOfListing(items, offset, page_size) ==
    LET shown == Listed(items)
        rest == Live \ shown
        MayPrecede(g, h) == StrCmp(g.created_at, h.created_at) # "Less"
    IN /\ Len(items) = Max(0, Min(page_size, Cardinality(Live) - offset))
       /\ Cardinality(shown) = Len(items)
       /\ shown \subseteq Live
       /\ DescendingByCreatedAt(items)
       /\ \E before \in SUBSET rest :
            /\ Cardinality(before) = Min(offset, Cardinality(Live))
            /\ \A b \in before : \A x \in Live \ before : MayPrecede(b, x)
            /\ \A x \in shown : \A a \in rest \ before : MayPrecede(x, a)

\* go/a, go/b, go/c created in that order, each at a later instant
ThreeInOrder == Items(3, <<0, 1, 2>>)

(***************************************************************************)
(* C13: getPaginated(page, pageSize) returns as its slice the elements at  *)
(* positions offset .. offset+pageSize-1, offset = (page-1)*pageSize, of   *)
(* the listing in descending order of created_at, and as totalCount the    *)
(* number of live Golinks.  With go/a, go/b, go/c created in that order,   *)
(* page 1 of size 2 is [c, b] and page 2 of size 2 is [a], both of total   *)
(* 3.  (A list request served on its own, on a store nobody writes.)       *)
(***************************************************************************)
C13_PageIsWindow ==
    [][\A reply \in {vResult'} :
        reply.op = "get_paginated" =>
            \A page \in {PageOf(vInput')}, page_size \in {PageSizeOf(vInput')} :
            \A items \in {reply.body.data} :
            /\ reply.status = OK
            /\ reply.body.pagination.total_items = Cardinality(Live)
            /\ WindowOfListing(items, (page - 1) * page_size, page_size)
            /\ (Live = Listed(ThreeInOrder) /\ page_size = 2) =>
                /\ page = 1 => items = <<ThreeInOrder[3], ThreeInOrder[2]>>
                /\ page = 2 => items = <<ThreeInOrder[1]>>
      ]_vars

\* with go/a, go/b, go/c stored, page 2 of size 2 was answered: [a], total 3
C13_Witness ==
    /\ Paginates(vInput)
    /\ vResult.op = "get_paginated"
    /\ vResult.status = OK
    /\ vResult.body.pagination.page = 2
    /\ vResult.body.pagination.page_size = 2
    /\ vResult.body.pagination.total_items = 3
    /\ Live = Listed(ThreeInOrder)
    /\ vResult.body.data = <<ThreeInOrder[1]>>

\* task p holds the reply of a list request of kind op that storage served
Listing(p, op) == resp[p].op = op /\ resp[p].status = OK

(***************************************************************************)
(* C14: with no writes in between, the pages of getPaginated put one after *)
(* the other reproduce the listing getAll returns, every item exactly      *)
(* once.  For the replies two requests hold on a store nobody writes: a    *)
(* page (page, page_size) is the window of page_size items after the first *)
(* (page-1)*page_size of getAll's listing, and two different pages of the  *)
(* same size have no item in common.                                       *)
(***************************************************************************)
C14_PagesReproduceGetAll ==
    \A p, q \in Procs :
        /\ (Listing(p, "get_all") /\ Listing(q, "get_paginated")) =>
            resp[q].body.data =
                SkipTake(resp[p].body.data,
                         (resp[q].body.pagination.page - 1)
                            * resp[q].body.pagination.page_size,
                         resp[q].body.pagination.page_size)
        /\ (Listing(p, "get_paginated") /\ Listing(q, "get_paginated")
             /\ resp[p].body.pagination.page_size
                    = resp[q].body.pagination.page_size
             /\ resp[p].body.pagination.page # resp[q].body.pagination.page) =>
            Listed(resp[p].body.data) \cap Listed(resp[q].body.data) = {}

\* a getAll and the one page that holds everything were answered on the
\* same store, and the two sequences differ
C14_Witness ==
    \E p, q \in Procs :
        /\ Listing(p, "get_all")
        /\ Listing(q, "get_paginated")
        /\ resp[q].body.pagination.page = 1
        /\ resp[q].body.pagination.page_size >= Cardinality(Live)
        /\ resp[q].body.data # resp[p].body.data

(***************************************************************************)
(* C15: when offset = (page-1)*pageSize is at or past the number of stored *)
(* Golinks, getPaginated is answered with success: an empty slice together *)
(* with the number of live Golinks as totalCount.                          *)
(***************************************************************************)
C15_PagePastEnd ==
    [][\A reply \in {vResult'} :
        (reply.op = "get_paginated"
         /\ (PageOf(vInput') - 1) * PageSizeOf(vInput') >= Cardinality(Live)) =>
            /\ reply.status = OK
            /\ reply.body.kind = "page"
            /\ reply.body.data = <<>>
            /\ reply.body.pagination.total_items = Cardinality(Live)
      ]_vars

\* page 2 of size 10 of a store of three Golinks was answered: no items,
\* total 3
C15_Witness ==
    /\ Paginates(vInput)
    /\ vResult.op = "get_paginated"
    /\ vResult.status = OK
    /\ vResult.body.pagination.page = 2
    /\ vResult.body.pagination.page_size = 10
    /\ vResult.body.data = <<>>
    /\ vResult.body.pagination.total_items = 3
    /\ Cardinality(Live) = 3

(***************************************************************************)
(* C16: the storage capability's getPaginated treats page as clamped to    *)
(* >= 1 and pageSize as clamped to [1, 100]: for every (page, pageSize)    *)
(* its result is its result for the clamped values, so page 0 behaves as   *)
(* page 1, pageSize 0 as pageSize 1 and pageSize above 100 as pageSize 100.*)
(***************************************************************************)
C16_StorageClamps ==
    \A page \in RawPages, page_size \in RawPageSizes :
        GoStorage_get_paginated(page, page_size) =
            GoStorage_get_paginated(Max(page, 1), Max(Min(page_size, 100), 1))

\* on a store of two Golinks, storage's page 1 of size 0 is empty while
\* its page 1 of size 1 is not
C16_Witness ==
    /\ Cardinality(Live) = 2
    /\ \A r \in GoStorage_get_paginated(1, 0) : r[1] = <<>>
    /\ \A r \in GoStorage_get_paginated(1, 1) : Len(r[1]) = 1

C18_PaginationMetadata ==
    [][\A reply \in {vResult'} :
        reply.op = "get_paginated" =>
            \A m \in {reply.body.pagination} :
                /\ m.page >= 1
                /\ m.page_size >= 1
                /\ m.page_size <= 100
                /\ m.total_items = Cardinality(Live)
                /\ m.total_pages * m.page_size >= m.total_items
                /\ m.total_items > 0 =>
                        (m.total_pages - 1) * m.page_size < m.total_items
                /\ m.total_items = 0 => m.total_pages = 0
                /\ (m.total_items = 3 /\ m.page_size = 2) =>
                        m.total_pages = 2]_vars

\* three items in pages of two: two pages
C18_Witness ==
    /\ Paginates(vInput)
    /\ vResult.op = "get_paginated"
    /\ vResult.body.pagination.total_items = 3
    /\ vResult.body.pagination.page_size = 2
    /\ vResult.body.pagination.total_pages = 2

\* task p is answered in this step
Answered(p) == resp'[p] # resp[p] /\ resp'[p].op # "none"

(***************************************************************************)
(* C19: every outcome has one status.  Whenever a request is answered: a   *)
(* create is answered 400 exactly when its short_link fails validation,    *)
(* 409 only when the short_link was taken (nothing is stored), 201 only    *)
(* with the entity it stored; a get, update or delete is answered 404 only *)
(* when no entity has the short_link, 200 only when the operation took     *)
(* place (the entity read or updated is live, the entity deleted is gone); *)
(* a list is answered 200 with its items; 500 is the answer to a fault of  *)
(* the database and to nothing else.  An error body never comes with a     *)
(* success status, and a success status never with an error body.          *)
(***************************************************************************)
C19_StatusMapping ==
    [][\A p \in Procs : Answered(p) =>
        \A r \in {resp'[p]} : \A k \in {resp'[p].key} :
            /\ (r.status \in {OK, CREATED}) <=> (r.body.kind # "error")
            /\ r.status = INTERNAL_SERVER_ERROR =>
                    backend = "sqlite" /\ UNCHANGED storeVars
            /\ r.op = "create" =>
                /\ r.status \in {CREATED, BAD_REQUEST, CONFLICT,
                                  INTERNAL_SERVER_ERROR}
                /\ (r.status = BAD_REQUEST) <=>
                        (validate_golink_pattern(k) = "Err")
                /\ r.status = CONFLICT =>
                        LiveAt(k) # {} /\ UNCHANGED storeVars
                /\ r.status = CREATED =>
                        r.body.kind = "golink" /\ r.body.golink \in Live'
            /\ r.op \in {"get", "update", "delete"} =>
                /\ r.status \in {OK, NOT_FOUND, INTERNAL_SERVER_ERROR}
                /\ r.status = NOT_FOUND => LiveAt(k)' = {}
            /\ (r.op \in {"get", "update"} /\ r.status = OK) =>
                    r.body.kind = "golink" /\ r.body.golink \in Live'
            /\ (r.op = "delete" /\ r.status = OK) =>
                    r.body.kind = "message" /\ LiveAt(k)' = {}
            /\ r.op \in {"get_all", "get_paginated"} =>
                /\ r.status \in {OK, INTERNAL_SERVER_ERROR}
                /\ r.status = OK => r.body.kind \in {"list", "page"}]_vars

\* a create refused with 409 and a get answered 404 are both held
C19_Witness ==
    \E p, q \in Procs :
        /\ resp[p].op = "create" /\ resp[p].status = CONFLICT
        /\ resp[q].op = "get" /\ resp[q].status = NOT_FOUND

\* the two tasks hold the replies of two creates that ran at the same time,
\* the only requests so far, for different valid short_links, and neither
\* met a database fault
TwoCreatesReturned ==
    /\ nreq = 2
    /\ \A p \in Procs :
        /\ pc[p] = "idle"
        /\ resp[p].op = "create"
        /\ validate_golink_pattern(resp[p].key) = "Ok"
        /\ resp[p].status # INTERNAL_SERVER_ERROR
    /\ resp[1].key # resp[2].key

(***************************************************************************)
(* C20: no lost writes.  Concurrent creates of different short_links that  *)
(* were absent all succeed however their steps interleave: once both have  *)
(* returned, both are answered 201 and the store holds exactly the two     *)
(* entities they replied with.  A get_all answered without a fault has as  *)
(* many items as the store holds entities when it reads, so one issued     *)
(* after the N creates returned has length N.                              *)
(***************************************************************************)
C20_NoLostWrites ==
    [][/\ TwoCreatesReturned' =>
            /\ \A p \in Procs :
                    resp'[p].status = CREATED
                    /\ resp'[p].body.kind = "golink"
                    /\ resp'[p].body.golink.short_link = resp'[p].key
            /\ Live' = {resp'[p].body.golink : p \in Procs}
            /\ Cardinality(Live') = 2
       /\ \A p \in Procs :
            (Returns(p, "get_all") /\ ~Faulted(p)) =>
                /\ Len(resp'[p].body.data) = Cardinality(Live)
                /\ Listed(resp'[p].body.data) = Live]_vars

\* after two creates, the second still held with 201, a get_all is answered
\* with two items
C20_Witness ==
    /\ nreq = 3
    /\ uuids = 2
    /\ resp[1].op = "get_all" /\ resp[1].status = OK
    /\ Len(resp[1].body.data) = 2
    /\ resp[2].op = "create" /\ resp[2].status = CREATED
    /\ pc[2] = "idle"

(***************************************************************************)
(* C21: the two backends are interchangeable.  Started empty and given the *)
(* same calls with the same arguments, with no lower-level fault, they     *)
(* return the same result at every call: the same value, the same items in *)
(* the same order, the same kind of error.                                 *)
(***************************************************************************)
C21_BackendsAgree == vResult[1] = vResult[2]

\* a get_all that the two backends answer with the same two Golinks, made
\* at different instants, in a different order
C21_Witness ==
    /\ vInput.op = "get_all"
    /\ vResult[1] # vResult[2]
    /\ Listed(vResult[1].value) = Listed(vResult[2].value)
    /\ Len(vResult[2].value) = 2
    /\ vResult[2].value[1].created_at # vResult[2].value[2].created_at

(***************************************************************************)
(* C22: SqliteStorage::create.  The INSERT is refused as AlreadyExists     *)
(* (409) only when a row with the short_link is stored, and always then    *)
(* unless the statement meets a fault of the engine; a fault is returned   *)
(* as DatabaseError (500 with the database error text), never as           *)
(* AlreadyExists, and stores nothing; with the short_link absent and no    *)
(* fault the row is stored and the create succeeds (201).                  *)
(***************************************************************************)
C22_SqliteCreateErrors ==
    [][\A p \in Procs :
        (backend = "sqlite" /\ Returns(p, "create")) =>
            \A g \in {req[p].golink} : \A r \in {resp'[p]} :
                /\ r.status \in {CREATED, CONFLICT, INTERNAL_SERVER_ERROR}
                /\ r.status = CONFLICT =>
                        LiveAt(g.short_link) # {} /\ rows' = rows
                /\ r.status = CREATED =>
                        LiveAt(g.short_link) = {} /\ rows' = rows \cup {g}
                /\ r.status = INTERNAL_SERVER_ERROR =>
                    /\ rows' = rows
                    /\ r.body.error \in
                            {"Database error: " \o f : f \in Faults}
                /\ r.status # INTERNAL_SERVER_ERROR =>
                        (r.status = CONFLICT <=> LiveAt(g.short_link) # {})
      ]_vars

\* on SQLite one create was refused for a taken short_link and another met
\* a fault
C22_Witness ==
    /\ backend = "sqlite"
    /\ \E p, q \in Procs :
        /\ resp[p].op = "create" /\ resp[p].status = CONFLICT
        /\ resp[q].op = "create" /\ resp[q].status = INTERNAL_SERVER_ERROR

\* task p is inside a method of HashMapStorage, between taking the guard
\* and dropping it
Inside(p) == backend = "hashmap" /\ pc[p] \in {"locked", "found", "absent"}

(***************************************************************************)
(* C23: the map of HashMapStorage is guarded by one reader/writer region.  *)
(* A writer (create, update, delete) is never inside together with another *)
(* writer or with a reader; readers (get, get_all, get_paginated) can be   *)
(* inside together.  A write is exclusive for its whole check-then-act     *)
(* sequence: the map changes only by the step of the one writer inside,    *)
(* which then leaves, and while a writer stays inside nobody else enters   *)
(* and the map is as it was when the writer looked.                        *)
(***************************************************************************)
C23_ReaderWriterRegion ==
    [][/\ Cardinality(rwlock'.writers) <= 1
       /\ rwlock'.writers # {} => rwlock'.readers = {}
       /\ \A p \in Procs :
            /\ Inside(p)' <=> p \in (rwlock'.writers \cup rwlock'.readers)
            /\ p \in rwlock'.writers => req'[p].op \in WriteOps
            /\ p \in rwlock'.readers => req'[p].op \in ReadOps
       /\ (backend = "hashmap" /\ data' # data) =>
            \E p \in Procs :
                /\ rwlock.writers = {p}
                /\ rwlock.readers = {}
                /\ rwlock'.writers = {}
                /\ pc'[p] = "idle"
       /\ \A p \in Procs :
            (p \in rwlock.writers /\ p \in rwlock'.writers) =>
                /\ data' = data
                /\ rwlock' = rwlock
                /\ \A q \in Procs \ {p} : ~Inside(q)'
      ]_vars

\* two readers are inside together
C23_Witness ==
    /\ backend = "hashmap"
    /\ rwlock.readers = Procs
    /\ \A p \in Procs : pc[p] = "locked" /\ req[p].op \in ReadOps

\* the reply the handler of a request makes of the result of its storage
\* call
ReplyOf(request, result) ==
    IF request.op = "create" THEN CreateReply(result, request.golink)
    ELSE IF request.op = "get" THEN GetReply(result)
    ELSE IF request.op = "update" THEN UpdateReply(result)
    ELSE IF request.op = "delete" THEN DeleteReply(result)
    ELSE IF request.op = "get_all" THEN GetAllReply(result)
    ELSE GetPaginatedReply(result, request.page, request.page_size)

\* in this step task p's request is answered, and store and answer are what
\* its storage call, made on its own on the store of this moment, gives
AtomicHere(p) ==
    IF backend = "hashmap"
    THEN \E o \in HashMapStorage_call(data, req[p]) :
            /\ data' = o.store
            /\ resp'[p] = Answer(req[p], ReplyOf(req[p], o.result))
    ELSE \E o \in SqliteStorage_call(rows, req[p], NoFault) :
            /\ rows' = o.store
            /\ resp'[p] = Answer(req[p], ReplyOf(req[p], o.result))

(***************************************************************************)
(* C24: apart from get_paginated of SqliteStorage, every storage operation *)
(* of both backends takes effect atomically: each request that is answered *)
(* without a fault is answered as if its storage call had run alone, at    *)
(* the moment of the answer, on the store as it then is, so the answers of *)
(* concurrent requests are those of the requests run one after the other.  *)
(***************************************************************************)
C24_OperationsAtomic ==
    [][\A p \in Procs :
        (req[p].op # "none" /\ Returns(p, req[p].op) /\ ~Faulted(p)
         /\ ~(backend = "sqlite" /\ req[p].op = "get_paginated")) =>
            AtomicHere(p)]_vars

\* two updates of one short_link with different urls have both changed the
\* row and neither has fetched it yet
C24_Witness ==
    /\ backend = "sqlite"
    /\ \A p \in Procs : pc[p] = "second" /\ req[p].op = "update"
    /\ req[1].short_link = req[2].short_link
    /\ req[1].url # req[2].url

\* task p is between the two statements of SqliteStorage::get_paginated
Counted(p) ==
    backend = "sqlite" /\ req[p].op = "get_paginated" /\ pc[p] = "second"

(***************************************************************************)
(* C25: SqliteStorage::get_paginated reads twice.  The total is the number *)
(* of rows when the COUNT runs, the slice a window of the rows when the    *)
(* SELECT runs, and the reply pairs the two.  Between the statements the   *)
(* total stops being the number of rows only by the INSERT of a concurrent *)
(* create or the DELETE of a concurrent delete, so without such a write    *)
(* total and slice agree; with one they can disagree (witness).            *)
(***************************************************************************)
C25_CountThenSlice ==
    [][\A p \in Procs :
        /\ (~Counted(p) /\ Counted(p)') =>
                total_count'[p] = Cardinality(rows) /\ rows' = rows
        /\ (Counted(p) /\ Counted(p)') =>
            /\ total_count'[p] = total_count[p]
            /\ (rows' # rows /\ Cardinality(rows') # Cardinality(rows)) =>
                \E q \in Procs \ {p} :
                    Returns(q, "create") \/ Returns(q, "delete")
            /\ Cardinality(rows') # Cardinality(rows) => rows' # rows
        /\ (Counted(p) /\ Returns(p, "get_paginated") /\ ~Faulted(p)) =>
            /\ rows' = rows
            /\ resp'[p].body.pagination.total_items = total_count[p]
            /\ resp'[p].body.data \in
                    SqliteSelectPage(rows, req[p].page_size,
                                     OffsetOf(req[p].page, req[p].page_size))
            /\ total_count[p] = Cardinality(rows) =>
                    Len(resp'[p].body.data) =
                        Max(0, Min(req[p].page_size,
                                   total_count[p]
                                   - OffsetOf(req[p].page, req[p].page_size)))
      ]_vars

\* a first page that reports one Golink and lists none, of a table that is
\* empty: the row was deleted between the COUNT and the SELECT
C25_Witness ==
    /\ backend = "sqlite"
    /\ rows = {}
    /\ \E p \in Procs :
        /\ resp[p].op = "get_paginated"
        /\ resp[p].status = OK
        /\ resp[p].body.pagination.page = 1
        /\ resp[p].body.pagination.total_items = 1
        /\ resp[p].body.data = <<>>

C27_FaultDetailHidden ==
    \A p, q \in Procs :
        (/\ resp[p].status = INTERNAL_SERVER_ERROR
         /\ resp[q].status = INTERNAL_SERVER_ERROR
         /\ resp[p].op = resp[q].op
         /\ resp[p].key = resp[q].key) => resp[p].body = resp[q].body

\* two gets of one key met different faults and are answered differently
C27_Witness ==
    /\ resp[1].op = "get" /\ resp[2].op = "get"
    /\ resp[1].key = resp[2].key
    /\ resp[1].status = INTERNAL_SERVER_ERROR
    /\ resp[2].status = INTERNAL_SERVER_ERROR
    /\ resp[1].body # resp[2].body

(***************************************************************************)
(* C28: no retries.  A request calls storage at most once: a create that   *)
(* fails validation is answered 400 without a call and without touching    *)
(* the store; every other request makes its one call, moves only forward   *)
(* through it and is answered when it returns; an error is answered in the *)
(* step that meets it and ends the request; the answer then stands until   *)
(* the task takes its next request; the store changes only in a step of a  *)
(* request's call.                                                         *)
(***************************************************************************)
C28_NoRetries ==
    [][LET Stage(l) == IF l = "idle" THEN 0
                       ELSE IF l = "call" THEN 1
                       ELSE IF l \in {"locked", "second"} THEN 2
                       ELSE 3
       IN
       /\ storeVars' # storeVars =>
            \E p \in Procs : Stage(pc[p]) >= 1 /\ pc'[p] # pc[p]
       /\ \A p \in Procs :
        /\ (pc[p] # "idle" /\ pc'[p] # pc[p]) =>
                pc'[p] = "idle" \/ Stage(pc'[p]) > Stage(pc[p])
        /\ (pc[p] = "idle" /\ pc'[p] # "idle") =>
                pc'[p] = "call" /\ nreq' = nreq + 1 /\ req'[p].op # "none"
        /\ (pc[p] # "idle" /\ pc'[p] = "idle") =>
                /\ req'[p] = NoReq
                /\ resp'[p].op = req[p].op
                /\ resp'[p].status # 0
        /\ (pc[p] # "idle" /\ pc'[p] # "idle") =>
                resp'[p] = resp[p] /\ req'[p] = req[p]
        /\ (pc[p] # "idle" /\ resp'[p] # resp[p]
             /\ resp'[p].status \notin {OK, CREATED}) => pc'[p] = "idle"
        /\ (pc[p] = "idle" /\ resp'[p] # resp[p]) => nreq' = nreq + 1
        /\ (pc[p] = "idle" /\ pc'[p] = "idle" /\ Answered(p)) =>
                /\ resp'[p].op = "create"
                /\ resp'[p].status = BAD_REQUEST
                /\ validate_golink_pattern(resp'[p].key) = "Err"
                /\ UNCHANGED storeVars
      ]_vars

\* the first statement of an update met a fault: the request is over, with
\* 500, and the row is as it was
C28_Witness ==
    /\ backend = "sqlite"
    /\ nreq = 2
    /\ \E p \in Procs :
        /\ pc[p] = "idle"
        /\ resp[p].op = "update"
        /\ resp[p].status = INTERNAL_SERVER_ERROR
        /\ \E g \in LiveAt(resp[p].key) : g.url = "https://example.com"
    /\ \A q \in Procs : pc[q] = "idle"

\* C29: exists(key) never returns NotFound or AlreadyExists, also when the
\* database fails, changes nothing, and on each store returns true exactly
\* when get(key) in the same state returns an entity: false on the store
\* nothing was created in, true right after a successful create of the key,
\* false right after a successful delete of it.
C29_ExistsAgreesWithGet ==
    [][LET GetsEntity(k) ==
               <<HashMapGet(data, k).tag = "Ok",
                 \A r \in SqliteGetResults(rows, k, NoFault) : r.tag = "Ok">>
       IN
       /\ vInput'.op = "exists" =>
            /\ \A i \in {1, 2} :
                /\ vResult'[i].tag = "Ok"
                /\ vResult'[i].value \in BOOLEAN
                /\ vResult'[i].value = GetsEntity(vInput'.short_link)[i]
            /\ UNCHANGED storeVars
            /\ uuids = 0 => vResult' = <<StorageOk(FALSE), StorageOk(FALSE)>>
            /\ (/\ vInput.op = "create"
                /\ vInput.golink.short_link = vInput'.short_link
                /\ vResult = <<StorageOk(Unit), StorageOk(Unit)>>) =>
                    vResult' = <<StorageOk(TRUE), StorageOk(TRUE)>>
            /\ (/\ vInput.op = "delete"
                /\ vInput.short_link = vInput'.short_link
                /\ vResult = <<StorageOk(Unit), StorageOk(Unit)>>) =>
                    vResult' = <<StorageOk(FALSE), StorageOk(FALSE)>>
       /\ \A k \in PathKeys, fault \in Faults \cup {NoFault} :
            \A o \in SqliteStorage_call(rows, [op |-> "exists",
                                               short_link |-> k], fault) :
                /\ o.result.tag \in {"Ok", "DatabaseError"}
                /\ o.store = rows
      ]_vars

\* create, delete, exists of one key: the third call answered false on both
\* stores, with the other key never created
C29_Witness ==
    /\ backend = "both"
    /\ nreq = 3
    /\ uuids = 1
    /\ Live = {}
    /\ vInput.op = "exists"
    /\ vResult = <<StorageOk(FALSE), StorageOk(FALSE)>>

(***************************************************************************)
(* C30: deletion leaves no tombstone.  A delete answered with success      *)
(* leaves nothing under its key, neither the deleted entity nor its id,    *)
(* and the id is not the one of a create under way; a create of a          *)
(* short_link that another task's delete has been answered with success    *)
(* for, and that has not been created again since, is answered 201         *)
(* (faults aside, never 409), replies with the entity of this create and   *)
(* stores exactly it under the short_link: its id, url and created_at.     *)
(***************************************************************************)
C30_NoTombstone ==
    [][\A p \in Procs :
        /\ (Returns(p, "delete") /\ resp'[p].status = OK) =>
            \A k \in {req[p].short_link} :
            /\ LiveAt(k)' = {}
            /\ ~contains_key(data', k)
            /\ SelectByShortLink(rows', k) = {}
            /\ \A g \in LiveAt(k) :
                /\ \A h \in Live' : h.id # g.id
                /\ \A q \in Procs :
                    req[q].op = "create" => req[q].golink.id # g.id
        /\ (/\ Returns(p, "create")
            /\ \E q \in Procs \ {p} :
                /\ pc[q] = "idle"
                /\ resp[q].op = "delete"
                /\ resp[q].key = req[p].short_link
                /\ resp[q].status = OK
            /\ LiveAt(req[p].short_link) = {}) =>
                \A k \in {req[p].short_link}, golink \in {req[p].golink} :
                /\ resp'[p].status \in {CREATED, INTERNAL_SERVER_ERROR}
                /\ ~Faulted(p) =>
                    /\ resp'[p].status = CREATED
                    /\ resp'[p].body = JsonGolink(golink)
                    /\ LiveAt(k)' = {golink}
                    /\ Live' = Live \cup {golink}
      ]_vars

\* three requests: a create, then a delete of the same short_link answered
\* 200, then the second create of it answered 201 with the entity that is
\* now the live one, under the id of the second create
C30_Witness ==
    /\ nreq = 3
    /\ uuids = 2
    /\ \E p \in Procs, q \in Procs :
        /\ pc[p] = "idle" /\ pc[q] = "idle"
        /\ resp[q].op = "delete"
        /\ resp[q].status = OK
        /\ resp[p].op = "create"
        /\ resp[p].key = resp[q].key
        /\ resp[p].status = CREATED
        /\ resp[p].body.golink.id = UuidToString(2)
        /\ LiveAt(resp[p].key) = {resp[p].body.golink}

(***************************************************************************)
(* C31: on HashMapStorage a request takes the lock once, when its storage  *)
(* method is called, and keeps its guard until the method returns, which   *)
(* is the step that drops it; a task that holds a guard can always take    *)
(* its next step, whatever the other tasks do; the lock is free whenever   *)
(* no task is inside a storage method; and under fair scheduling every     *)
(* request that has begun is answered.                                     *)
(***************************************************************************)
C31_LockReleasedAndLive ==
    /\ [][LET Holders == rwlock.writers \cup rwlock.readers
              HoldersAfter == rwlock'.writers \cup rwlock'.readers
          IN \A p \in Procs :
            /\ (p \notin Holders /\ p \in HoldersAfter) =>
                    /\ pc[p] = "call"
                    /\ pc'[p] = "locked"
                    /\ req'[p] = req[p]
                    /\ HoldersAfter = Holders \cup {p}
            /\ (p \in Holders /\ pc'[p] # "idle") =>
                    p \in HoldersAfter /\ req'[p] = req[p]
            /\ (p \in Holders /\ pc'[p] = "idle") => p \notin HoldersAfter
            /\ pc'[p] \in {"idle", "call"} => p \notin HoldersAfter
       ]_vars
    /\ [](\A p \in rwlock.writers \cup rwlock.readers :
            ENABLED <<HashMapStorage_step(p)>>_vars)
    /\ []((\A p \in Procs : ~Inside(p)) =>
            rwlock.writers \cup rwlock.readers = {})
    /\ \A p \in Procs : (pc[p] # "idle") ~> (pc[p] = "idle")

\* a writer waits in write().await while a reader holds its guard
C31_Witness ==
    \E p, q \in Procs :
        /\ pc[p] = "call"
        /\ req[p].op \in WriteOps
        /\ pc[q] = "locked"
        /\ q \in rwlock.readers

(***************************************************************************)
(* C32: on SqliteStorage an update(key, url2) whose UPDATE has changed a   *)
(* row is answered, database faults aside, with success and the entity of  *)
(* the key carrying url2, the one it wrote, whatever updates and deletes   *)
(* of the same key run at the same time; it is never answered NotFound.    *)
(***************************************************************************)
C32_UpdateReturnsWritten ==
    [][\A p \in Procs :
        (/\ backend = "sqlite"
         /\ Returns(p, "update")
         /\ pc[p] = "second"
         /\ ~Faulted(p)) =>
            /\ resp'[p].status # NOT_FOUND
            /\ resp'[p].status = OK
            /\ resp'[p].body.kind = "golink"
            /\ resp'[p].body.golink.short_link = req[p].short_link
            /\ resp'[p].body.golink.url = req[p].url
      ]_vars

\* an update has changed its row and has yet to fetch it, and a delete that
\* ran since has been answered with success: the row is gone
C32_Witness ==
    /\ backend = "sqlite"
    /\ \E p, q \in Procs :
        /\ pc[p] = "second"
        /\ req[p].op = "update"
        /\ pc[q] = "idle"
        /\ resp[q].op = "delete"
        /\ resp[q].key = req[p].short_link
        /\ resp[q].status = OK
        /\ LiveAt(req[p].short_link) = {}

(***************************************************************************)
(* C33: HashMapStorage::get_paginated reads one snapshot.  While a task    *)
(* holds the read guard the map does not change, whatever writes are       *)
(* under way; the reply of get_paginated reports as total the number of    *)
(* entries of the map of that moment and lists exactly                     *)
(* min(page_size, max(0, total - offset)) entries, each once and each an   *)
(* entry of that same map.                                                 *)
(***************************************************************************)
C33_OneSnapshot ==
    [][\A p \in Procs :
        /\ (backend = "hashmap" /\ p \in rwlock.readers) => data' = data
        /\ (backend = "hashmap" /\ Returns(p, "get_paginated")) =>
            LET snapshot == {data[i].value : i \in DOMAIN data}
                total == resp'[p].body.pagination.total_items
                offset == (req[p].page - 1) * req[p].page_size
                items == resp'[p].body.data
            IN /\ p \in rwlock.readers
               /\ resp'[p].status = OK
               /\ total = Len(data)
               /\ total = Cardinality(snapshot)
               /\ Len(items) = Min(req[p].page_size, Max(0, total - offset))
               /\ Listed(items) \subseteq snapshot
               /\ Cardinality(Listed(items)) = Len(items)
      ]_vars

\* a page of one entry with total 1 has been returned from a map of one
\* entry while the create of another task waits for the lock
C33_Witness ==
    /\ backend = "hashmap"
    /\ Len(data) = 1
    /\ \E p, q \in Procs :
        /\ pc[p] = "idle"
        /\ resp[p].op = "get_paginated"
        /\ resp[p].status = OK
        /\ resp[p].body.pagination.total_items = 1
        /\ Len(resp[p].body.data) = 1
        /\ pc[q] = "call"
        /\ req[q].op = "create"

(***************************************************************************)
(* C34: in every state reached through the handlers, with creates,         *)
(* updates and deletes on short_links that match the pattern and on ones   *)
(* that do not, every stored Golink has a short_link of the shape "go/"    *)
(* followed by one or more allowed characters, and the map holds it under  *)
(* that short_link.                                                        *)
(***************************************************************************)
C34_StoredAliasesMatch ==
    LET AliasShape(s) ==
            /\ Len(s) >= 4
            /\ SubSeq(s, 1, 3) = <<103, 111, 47>>
            /\ \A i \in 4..Len(s) :
                s[i] \in (97..122) \cup (65..90) \cup (48..57) \cup {95, 45}
    IN
    /\ \A i \in DOMAIN data :
        /\ AliasShape(data[i].key)
        /\ data[i].value.short_link = data[i].key
    /\ \A r \in rows : AliasShape(r.short_link)

\* a Golink is stored, an update of "go/@" has been answered 404 and a
\* create of "go/@" 400
C34_Witness ==
    /\ Live # {}
    /\ \E p, q \in Procs :
        /\ resp[p].op = "update"
        /\ resp[p].key = GoAt
        /\ resp[p].status = NOT_FOUND
        /\ resp[q].op = "create"
        /\ resp[q].key = GoAt
        /\ resp[q].status = BAD_REQUEST

(***************************************************************************)
(* C35: the offset (page - 1) * page_size neither wraps nor fails.  For    *)
(* every page a request can carry, up to the largest usize, and every      *)
(* page_size of 1 to 100, the request is answered 200, the offset computed *)
(* is the product, the total is the number of stored Golinks and the page  *)
(* lists min(page_size, max(0, total - offset)) of them: none when the     *)
(* page lies beyond the end.                                               *)
(***************************************************************************)
C35_OffsetExact ==
    nreq = 1 =>
        LET page == PageOf(vInput)
            page_size == PageSizeOf(vInput)
            product == (page - 1) * page_size
            total == Cardinality(Live)
        IN /\ page_size \in 1..100
           /\ vResult.status = OK
           /\ OffsetOf(page, page_size) = product
           /\ vResult.body.pagination.total_items = total
           /\ Len(vResult.body.data) =
                Min(page_size, Max(0, total - product))

\* a page number beyond half the range of usize has been answered with a
\* page that lists stored Golinks
C35_Witness ==
    /\ nreq = 1
    /\ PageOf(vInput) > UsizeModulus \div 2
    /\ vResult.status = OK
    /\ vResult.body.data # <<>>

(***************************************************************************)
(* C36: a list request that carries page or page_size is answered in the   *)
(* paginated mode also when the text of the parameter is no unsigned       *)
(* integer, and the pagination object reports the effective values: page   *)
(* is 1 when the parameter is missing, unparseable or 0 and the number     *)
(* given otherwise; page_size is 10 when the parameter is missing or       *)
(* unparseable, 1 when it is 0, 100 when it is above 100 and the number    *)
(* given otherwise.  The page lists at most page_size entities.            *)
(***************************************************************************)
C36_ParameterDefaults ==
    [][LET Digits(text) ==
               IF text # <<>> /\ Head(text) = 43 THEN Tail(text) ELSE text
           IsUnsigned(text) ==
               Digits(text) # <<>>
               /\ \A i \in DOMAIN Digits(text) : Digits(text)[i] \in 48..57
           UnsignedValue(text) == DecValue(Digits(text), Len(Digits(text)))
       IN
       \A params \in {vInput'} : \A reply \in {vResult'} :
        (DOMAIN params # {}) =>
            /\ reply.op = "get_paginated"
            /\ reply.status = OK
            /\ reply.body.kind = "page"
            /\ \A m \in {reply.body.pagination} :
                /\ ("page" \notin DOMAIN params) => m.page = 1
                /\ ("page" \in DOMAIN params) =>
                    \A text \in {params["page"]} :
                        /\ ~IsUnsigned(text) => m.page = 1
                        /\ IsUnsigned(text) =>
                            m.page = (IF UnsignedValue(text) = 0 THEN 1
                                      ELSE UnsignedValue(text))
                /\ ("page_size" \notin DOMAIN params) => m.page_size = 10
                /\ ("page_size" \in DOMAIN params) =>
                    \A text \in {params["page_size"]} :
                        /\ ~IsUnsigned(text) => m.page_size = 10
                        /\ IsUnsigned(text) =>
                            m.page_size =
                                (IF UnsignedValue(text) = 0 THEN 1
                                 ELSE IF UnsignedValue(text) > 100 THEN 100
                                 ELSE UnsignedValue(text))
                /\ Len(reply.body.data) <= m.page_size
      ]_vars

\* page=x alone, on a store that holds Golinks: a page, reported as page 1
\* of pages of 10, that lists them all
C36_Witness ==
    /\ DOMAIN vInput = {"page"}
    /\ vInput["page"] = <<120>>
    /\ Live # {}
    /\ vResult.op = "get_paginated"
    /\ vResult.body.pagination.page = 1
    /\ vResult.body.pagination.page_size = 10
    /\ Listed(vResult.body.data) = Live

=============================================================================
